---------------------------- MODULE Spec2Model ----------------------------
(***************************************************************************)
(* A model of dcpe-js: the RagEncryptionClient (dcpe/rag_encryption),      *)
(* the vector crypto core (dcpe/crypto), the key types (dcpe/keys) and the *)
(* HKDF helper (src/crypto/hkdf.js).                                       *)
(*                                                                         *)
(* Conventions.                                                            *)
(*  - A Buffer is a sequence of bytes.  A byte is either a literal         *)
(*    [lit |-> 0..255] or a symbolic byte [src |-> term, at |-> i]: the    *)
(*    i-th byte of the output of a cryptographic primitive, of OS          *)
(*    randomness or of key material.  HMAC-SHA-256, the AES-GCM tag and    *)
(*    the CTR key stream are ideal: two outputs are equal exactly when the *)
(*    primitive was applied to equal inputs.                               *)
(*  - A JavaScript string is a sequence of UTF-16 code units.              *)
(*  - A JavaScript number is [k |-> "fin", v |-> n] for the dyadic         *)
(*    rational n / Q, or +Infinity, -Infinity, NaN.                        *)
(*  - An operation returns [kind |-> "ok", val |-> ...] or                 *)
(*    [kind |-> <name of the thrown error class>].                         *)
(***************************************************************************)
EXTENDS Integers, Sequences, FiniteSets, TLC

VARIABLES
    client,     \* the RagEncryptionClient's fields
    pending,    \* the rotateKey calls suspended at their await
    stored,     \* what the external store holds: one earlier result, or none
    out,        \* the last operation and what it returned or threw
    shuf,       \* the last call of shuffle / unshuffle on an array
    dcpe,       \* the DCPE instances of the process, each with its key provider
    clientInstance  \* _clientInstance, the client the module-level helpers share

vars == <<client, pending, stored, out, shuf, dcpe, clientInstance>>

---------------------------------------------------------------------------
(* Bytes and Buffers                                                       *)
(*                                                                         *)
(* A Buffer is written as its sequence of chunks, each a run of bytes:     *)
(*   [lit |-> <<b1, ..., bn>>]         the literal bytes b1 ... bn         *)
(*   [src |-> t, from |-> i, n |-> k]  bytes i .. i+k-1 of the output of t *)
(*   [ctr |-> ks, from |-> i, x |-> <<b1, ..., bk>>]                       *)
(*                                     bytes i .. i+k-1 of the key stream  *)
(*                                     ks, xor the literal bytes b1 ... bk *)
(* with no empty chunk and no two neighbours that are one run: two Buffers *)
(* are equal as values exactly when they are equal byte for byte.          *)

ChunkLen(c) ==
    IF "lit" \in DOMAIN c THEN Len(c.lit)
    ELSE IF "x" \in DOMAIN c THEN Len(c.x)
    ELSE c.n

RECURSIVE BLen(_)
BLen(buf) == IF buf = <<>> THEN 0 ELSE ChunkLen(buf[1]) + BLen(Tail(buf))

\* Two neighbouring chunks as one run, where they are one.
Merge(a, b) ==
    IF "lit" \in DOMAIN a /\ "lit" \in DOMAIN b
    THEN <<[lit |-> a.lit \o b.lit]>>
    ELSE IF /\ "src" \in DOMAIN a /\ "src" \in DOMAIN b
            /\ a.src = b.src /\ a.from + a.n = b.from
    THEN <<[src |-> a.src, from |-> a.from, n |-> a.n + b.n]>>
    ELSE IF /\ "ctr" \in DOMAIN a /\ "ctr" \in DOMAIN b
            /\ a.ctr = b.ctr /\ a.from + Len(a.x) = b.from
    THEN <<[ctr |-> a.ctr, from |-> a.from, x |-> a.x \o b.x]>>
    ELSE <<a, b>>

\* Buffer.concat([a, b])
Concat(a, b) ==
    IF a = <<>> THEN b
    ELSE IF b = <<>> THEN a
    ELSE SubSeq(a, 1, Len(a) - 1) \o Merge(a[Len(a)], b[1]) \o Tail(b)

\* Bytes s .. e-1 (from 0) of chunk c, for 0 <= s < e <= ChunkLen(c).
ChunkSlice(c, s, e) ==
    IF "lit" \in DOMAIN c THEN [lit |-> SubSeq(c.lit, s + 1, e)]
    ELSE IF "x" \in DOMAIN c
    THEN [ctr |-> c.ctr, from |-> c.from + s, x |-> SubSeq(c.x, s + 1, e)]
    ELSE [src |-> c.src, from |-> c.from + s, n |-> e - s]

Clamp(x, n) == IF x < 0 THEN 0 ELSE IF x > n THEN n ELSE x

\* Bytes s .. e-1 (from 0) of buf, for 0 <= s <= e <= BLen(buf).
RECURSIVE Slice(_, _, _)
Slice(buf, s, e) ==
    IF buf = <<>> \/ e <= s THEN <<>>
    ELSE LET n == ChunkLen(buf[1])
         IN  IF s >= n THEN Slice(Tail(buf), s - n, e - n)
             ELSE IF e <= n THEN <<ChunkSlice(buf[1], s, e)>>
             ELSE <<ChunkSlice(buf[1], s, n)>> \o Slice(Tail(buf), 0, e - n)

\* buf.subarray(start, end), with Node's clamping of both offsets to the length.
Subarray(buf, start, end) ==
    Slice(buf, Clamp(start, BLen(buf)), Clamp(end, BLen(buf)))

Lit(bytes) == IF bytes = <<>> THEN <<>> ELSE <<[lit |-> bytes]>>

\* The n bytes of the output of `term`.
TermBytes(term, n) == IF n = 0 THEN <<>> ELSE <<[src |-> term, from |-> 1, n |-> n]>>

\* Buffer.from(<ASCII string literal>): the literal's n bytes.
StrBytes(s, n) == TermBytes([str |-> s], n)

---------------------------------------------------------------------------
(* Strings: Buffer.from(s, 'utf8') and buf.toString('utf8')                *)

IsHighSurrogate(u) == u >= 55296 /\ u <= 56319
IsLowSurrogate(u)  == u >= 56320 /\ u <= 57343

\* The UTF-8 bytes of one code point.
Utf8OfCodePoint(cp) ==
    IF cp < 128 THEN <<cp>>
    ELSE IF cp < 2048 THEN <<192 + (cp \div 64), 128 + (cp % 64)>>
    ELSE IF cp < 65536
         THEN <<224 + (cp \div 4096), 128 + ((cp \div 64) % 64), 128 + (cp % 64)>>
         ELSE <<240 + (cp \div 262144), 128 + ((cp \div 4096) % 64),
                128 + ((cp \div 64) % 64), 128 + (cp % 64)>>

\* Buffer.from(s, 'utf8'): a surrogate pair is one code point; a surrogate
\* without its partner is written as U+FFFD.
RECURSIVE Utf8Encode(_)
Utf8Encode(s) ==
    IF s = <<>> THEN <<>>
    ELSE LET u == s[1]
         IN  IF IsHighSurrogate(u) /\ Len(s) >= 2 /\ IsLowSurrogate(s[2])
             THEN Utf8OfCodePoint(65536 + (u - 55296) * 1024 + (s[2] - 56320))
                      \o Utf8Encode(SubSeq(s, 3, Len(s)))
             ELSE IF IsHighSurrogate(u) \/ IsLowSurrogate(u)
                  THEN Utf8OfCodePoint(65533) \o Utf8Encode(Tail(s))
                  ELSE Utf8OfCodePoint(u) \o Utf8Encode(Tail(s))

IsCont(b) == b >= 128 /\ b <= 191

\* The code units of one code point.
Utf16OfCodePoint(cp) ==
    IF cp < 65536 THEN <<cp>>
    ELSE <<55296 + ((cp - 65536) \div 1024), 56320 + ((cp - 65536) % 1024)>>

\* buf.toString('utf8') on literal bytes: a malformed or overlong sequence,
\* an encoded surrogate and a value above U+10FFFF decode to U+FFFD.
RECURSIVE Utf8Decode(_)
Utf8Decode(b) ==
    IF b = <<>> THEN <<>>
    ELSE LET b1 == b[1]
             n  == Len(b)
             rest(k) == SubSeq(b, k + 1, n)
         IN  IF b1 < 128 THEN <<b1>> \o Utf8Decode(rest(1))
             ELSE IF b1 >= 194 /\ b1 <= 223 /\ n >= 2 /\ IsCont(b[2])
                  THEN <<(b1 - 192) * 64 + (b[2] - 128)>> \o Utf8Decode(rest(2))
             ELSE IF b1 >= 224 /\ b1 <= 239 /\ n >= 3 /\ IsCont(b[2]) /\ IsCont(b[3])
                     /\ (b1 - 224) * 4096 + (b[2] - 128) * 64 + (b[3] - 128) >= 2048
                     /\ ~ IsHighSurrogate((b1 - 224) * 4096 + (b[2] - 128) * 64 + (b[3] - 128))
                     /\ ~ IsLowSurrogate((b1 - 224) * 4096 + (b[2] - 128) * 64 + (b[3] - 128))
                  THEN <<(b1 - 224) * 4096 + (b[2] - 128) * 64 + (b[3] - 128)>>
                           \o Utf8Decode(rest(3))
             ELSE IF b1 >= 240 /\ b1 <= 244 /\ n >= 4 /\ IsCont(b[2]) /\ IsCont(b[3])
                     /\ IsCont(b[4])
                     /\ (b1 - 240) * 262144 + (b[2] - 128) * 4096 + (b[3] - 128) * 64
                            + (b[4] - 128) >= 65536
                     /\ (b1 - 240) * 262144 + (b[2] - 128) * 4096 + (b[3] - 128) * 64
                            + (b[4] - 128) <= 1114111
                  THEN Utf16OfCodePoint((b1 - 240) * 262144 + (b[2] - 128) * 4096
                                            + (b[3] - 128) * 64 + (b[4] - 128))
                           \o Utf8Decode(rest(4))
             ELSE <<65533>> \o Utf8Decode(rest(1))

\* Buffer.from(s, 'utf8')
BufferFromString(s) == Lit(Utf8Encode(s))

\* buf.toString('utf8'), for a Buffer of literal bytes.
BufferToString(buf) == IF buf = <<>> THEN <<>> ELSE Utf8Decode(buf[1].lit)

---------------------------------------------------------------------------
(* JavaScript values that are not of the expected type                     *)

\* A value that is not a Buffer (null, undefined, a string, ...), where a
\* Buffer is expected.
NotABuffer == <<[js |-> "not-a-buffer"]>>

\* null and undefined (both falsy), where a Buffer is expected.
Null == <<[js |-> "null"]>>
Undefined == <<[js |-> "undefined"]>>

IsBuffer(x) == x \notin {NotABuffer, Null, Undefined}
Truthy(x) == x \notin {Null, Undefined}

\* No DCPE instance constructed, and the module-level `_clientInstance = null`.
NoDcpe == <<>>
NoClient == [js |-> "null"]

\* A value that is not a string, where a string is expected.
NotAString == <<-1>>
IsString(x) == x /= NotAString

Ok(v)      == [kind |-> "ok", val |-> v]
Throw(e)   == [kind |-> e]
IsOk(r)    == r.kind = "ok"

---------------------------------------------------------------------------
(* Node's crypto primitives, idealised                                     *)

\* crypto.createHmac('sha256', key).update(msg).digest(): 32 bytes.
HmacSha256(key, msg) == TermBytes([hmac |-> key, msg |-> msg], 32)

\* crypto.randomBytes(n), the OS having drawn the value named `draw`.
RandomBytes(draw, n) == TermBytes([rnd |-> draw], n)

\* The tag lengths decipher.setAuthTag accepts for GCM.
GcmTagLengths == {4, 8, 12, 13, 14, 15, 16}

KeyStream(key, iv) == [ks |-> key, iv |-> iv]

\* The tag of (key, iv, ciphertext): a keyed function of the three.
GcmTag(key, iv, ct) == TermBytes([gcm |-> KeyStream(key, iv), ct |-> ct], 16)

\* createCipheriv('aes-256-gcm', key, iv); update(pt); final(); getAuthTag(),
\* for a Buffer pt of literal bytes.  CTR mode: byte i of the ciphertext is
\* byte i of the plaintext xor byte i of the key stream of (key, iv).  A key
\* that is not 32 bytes or an empty iv throws Node's own error.
GcmEncrypt(key, iv, pt) ==
    IF BLen(key) /= 32 \/ BLen(iv) = 0 THEN Throw("Error")
    ELSE LET ct == IF pt = <<>> THEN <<>>
                   ELSE <<[ctr |-> KeyStream(key, iv), from |-> 1, x |-> pt[1].lit]>>
         IN  Ok([ciphertext |-> ct, tag |-> GcmTag(key, iv, ct)])

\* createDecipheriv('aes-256-gcm', key, iv); setAuthTag(tag); update(ct);
\* final().  final() throws Node's own Error unless the tag is the leading
\* bytes of the tag of (key, iv, ct); then ct is a ciphertext made under
\* (key, iv), and the plaintext is what was xor-ed into the key stream.
GcmDecrypt(key, iv, ct, tag) ==
    IF BLen(key) /= 32 \/ BLen(iv) = 0 THEN Throw("Error")
    ELSE IF BLen(tag) \notin GcmTagLengths THEN Throw("Error")
    ELSE IF tag /= Subarray(GcmTag(key, iv, ct), 0, BLen(tag)) THEN Throw("Error")
    ELSE Ok(IF ct = <<>> THEN <<>> ELSE Lit(ct[1].x))

---------------------------------------------------------------------------
(* src/crypto/hkdf.js                                                      *)

Min(a, b) == IF a < b THEN a ELSE b

\* The expand loop with blocks that are not chained: T(i) without T(i-1)
\* (a variant, for C22).
RECURSIVE HkdfExpandUnchained(_, _, _, _, _, _)
HkdfExpandUnchained(prk, info, length, i, previous, result) ==
    IF ~ (BLen(result) < length) THEN result
    ELSE LET next == HmacSha256(prk, Concat(info, Lit(<<i % 256>>)))
             remainder == Min(length - BLen(result), 32)
         IN  HkdfExpandUnchained(prk, info, length, i + 1, next,
                                 Concat(result, Subarray(next, 0, remainder)))

\* The expand loop: for (i = 1; resultPosition < length; i++).
RECURSIVE HkdfExpand(_, _, _, _, _, _)
HkdfExpand(prk, info, length, i, previous, result) ==
    IF ~ (BLen(result) < length) THEN result
    ELSE LET next == HmacSha256(prk, Concat(Concat(previous, info), Lit(<<i % 256>>)))
             remainder == Min(length - BLen(result), 32)
         IN  HkdfExpand(prk, info, length, i + 1, next,
                        Concat(result, Subarray(next, 0, remainder)))

hkdf(ikm, length, salt, info) ==
    IF ~ IsBuffer(ikm) THEN Throw("TypeError")
    ELSE LET salt1 == IF Truthy(salt) THEN salt ELSE <<>>
             info1 == IF Truthy(info) THEN info ELSE <<>>
             prk   == HmacSha256(salt1, ikm)
         IN  Ok(HkdfExpand(prk, info1, length, 1, <<>>, <<>>))

---------------------------------------------------------------------------
(* JavaScript numbers                                                      *)
(*                                                                         *)
(* The finite numbers of the model are the multiples n/Q of 1/Q of         *)
(* magnitude at most MaxValue; Fin(n) is n/Q.  A result of larger          *)
(* magnitude is an infinity, as a double beyond Number.MAX_VALUE is, and   *)
(* every other result is rounded to the nearest multiple of 1/Q.           *)

Q == 2^10
MaxValue == 2^29

Fin(n)  == [k |-> "fin", v |-> n]
PosInf  == [k |-> "inf", v |-> 1]
NegInf  == [k |-> "inf", v |-> -1]
NaN     == [k |-> "nan", v |-> 0]
\* A value whose typeof is not 'number'.
NotANumber == [k |-> "not-a-number", v |-> 0]

Num(n)        == Fin(n * Q)
IsNumber(x)   == x.k /= "not-a-number"
\* Number.isFinite(x)
IsFinite(x)   == x.k = "fin"

Abs(n)  == IF n < 0 THEN -n ELSE n
Sign(x) == IF x.v < 0 THEN -1 ELSE IF x.v > 0 THEN 1 ELSE 0
Inf(sign) == IF sign < 0 THEN NegInf ELSE PosInf

\* The number of signed magnitude sign * n / Q, n >= 0.
Signed(sign, n) == IF n > MaxValue THEN Inf(sign) ELSE Fin(sign * n)

\* n / d for n, d > 0 rounded to the nearest integer.
RoundDiv(n, d) == (n \div d) + (IF 2 * (n % d) >= d THEN 1 ELSE 0)

\* -x
Neg(x) == IF x.k \in {"fin", "inf"} THEN [k |-> x.k, v |-> -x.v] ELSE x

\* x + y
Add(x, y) ==
    IF x.k = "nan" \/ y.k = "nan" THEN NaN
    ELSE IF x.k = "inf" THEN (IF y.k = "inf" /\ y.v /= x.v THEN NaN ELSE x)
    ELSE IF y.k = "inf" THEN y
    ELSE Signed(IF x.v + y.v < 0 THEN -1 ELSE 1, Abs(x.v + y.v))

\* x - y
Sub(x, y) == Add(x, Neg(y))

\* x * y
Mul(x, y) ==
    IF x.k = "nan" \/ y.k = "nan" THEN NaN
    ELSE IF x.k = "inf" \/ y.k = "inf"
    THEN (IF Sign(x) * Sign(y) = 0 THEN NaN ELSE Inf(Sign(x) * Sign(y)))
    ELSE LET xi == Abs(x.v) \div Q
             xf == Abs(x.v) % Q
             yi == Abs(y.v) \div Q
             yf == Abs(y.v) % Q
             sign == Sign(x) * Sign(y)
         IN  IF xi /= 0 /\ yi > (MaxValue \div Q) \div xi THEN Inf(sign)
             ELSE Signed(sign, xi * yi * Q + xi * yf + xf * yi + RoundDiv(xf * yf, Q))

\* x / y, for a finite divisor below 2^21 / Q in magnitude.
Div(x, y) ==
    IF x.k = "nan" \/ y.k = "nan" THEN NaN
    ELSE IF x.k = "inf" THEN (IF y.k = "inf" THEN NaN
                              ELSE Inf(IF y.v < 0 THEN -x.v ELSE x.v))
    ELSE IF y.k = "inf" THEN Fin(0)
    ELSE IF y.v = 0 THEN (IF x.v = 0 THEN NaN ELSE Inf(Sign(x)))
    ELSE LET n == Abs(x.v)
             d == Abs(y.v)
             sign == Sign(x) * Sign(y)
         IN  IF n \div d > MaxValue \div Q THEN Inf(sign)
             ELSE Signed(sign, (n \div d) * Q + RoundDiv((n % d) * Q, d))

\* The largest r >= 0 with r * r <= n, between lo and hi.
RECURSIVE ISqrt(_, _, _)
ISqrt(n, lo, hi) ==
    IF lo >= hi THEN lo
    ELSE LET mid == (lo + hi + 1) \div 2
         IN  IF mid <= n \div mid THEN ISqrt(n, mid, hi) ELSE ISqrt(n, lo, mid - 1)

\* Math.sqrt(x), rounded down to a multiple of 1/Q.
MathSqrt(x) ==
    IF x.k = "nan" THEN NaN
    ELSE IF x.k = "inf" THEN (IF x.v > 0 THEN PosInf ELSE NaN)
    ELSE IF x.v < 0 THEN NaN
    ELSE IF x.v < 2^20 THEN Fin(ISqrt(x.v * Q, 0, 2^15))
    ELSE Fin(ISqrt(x.v, 0, 2^15) * 2^5)

\* Math.fround(x): x rounded to the 24 significant bits of a float32, ties
\* to even.
RECURSIVE Ulp32(_, _)
Ulp32(n, ulp) == IF n < 2^24 * ulp THEN ulp ELSE Ulp32(n, 2 * ulp)

Fround(x) ==
    IF x.k /= "fin" THEN x
    ELSE LET n == Abs(x.v)
             ulp == Ulp32(n, 1)
             down == (n \div ulp) * ulp
             rest == n % ulp
             up == IF 2 * rest > ulp \/ (2 * rest = ulp /\ (n \div ulp) % 2 = 1)
                   THEN ulp ELSE 0
         IN  Fin(Sign(x) * (down + up))

\* Buffer.from(Float32Array.of(x).buffer): the 4 bytes of the float32 of x.
Float32Bytes(x) == TermBytes([f32 |-> Fround(x)], 4)

---------------------------------------------------------------------------
(* dcpe/crypto: noise                                                      *)

\* What the OS randomness may return for crypto.randomBytes(4), read by
\* readUInt32LE(0): the words 0, 2^31 and 7 * 2^29, written by their top 16
\* bits.
Words == {0, 32768, 57344}

\* The words among them drawn for the coordinates of sampleNormalVector.
NormalWords == {0, 32768}

\* word / 0x100000000: 0, 1/2 and 7/8.
Uniform(word) == Fin((word * Q) \div 65536)

\* Math.log(x) for x = 0 and x = 1/2.
MathLog(x) ==
    CASE x = Fin(0)   -> NegInf
      [] x = Fin(512) -> Fin(-710)

\* Math.cos(2.0 * Math.PI * x) for x = 0 and x = 1/2.
MathCos2Pi(x) ==
    CASE x = Fin(0)   -> Fin(1024)
      [] x = Fin(512) -> Fin(-1024)

\* Math.pow(x, 1 / dimensionality) for dimensionality 1 and 2.
MathRoot(x, dimensionality) ==
    CASE dimensionality = 1 -> x
      [] dimensionality = 2 -> MathSqrt(x)

\* One coordinate of sampleNormalVector from the two words drawn for it.
BoxMuller(u1Word, u2Word) ==
    Mul(MathSqrt(Mul(Num(-2), MathLog(Uniform(u1Word)))), MathCos2Pi(Uniform(u2Word)))

\* sampleNormalVector(dimensionality); words[i] are the two words drawn for
\* coordinate i.
sampleNormalVector(dimensionality, words) ==
    [i \in 1..dimensionality |-> BoxMuller(words[i][1], words[i][2])]

\* sampleUniformPoint()
sampleUniformPoint(word) == Uniform(word)

\* calculateUniformPointInBall(scalingFactor, approximationFactor, uniformPoint, dimensionality)
calculateUniformPointInBall(scalingFactor, approximationFactor, uniformPoint, dimensionality) ==
    LET radius == Mul(Div(scalingFactor, Num(4)), approximationFactor)
    IN  Mul(radius, MathRoot(uniformPoint, dimensionality))

RECURSIVE SumOfSquares(_)
SumOfSquares(vector) ==
    IF vector = <<>> THEN Fin(0)
    ELSE Add(Mul(vector[1], vector[1]), SumOfSquares(Tail(vector)))

\* math.norm(vector): the Euclidean norm.
MathNorm(vector) == MathSqrt(SumOfSquares(vector))

\* normalizeVector(vector, scale)
normalizeVector(vector, scale) ==
    LET norm == MathNorm(vector)
    IN  [i \in 1..Len(vector) |-> Div(Mul(vector[i], scale), norm)]

\* Number.isFinite(x) && x > 0
IsPositive(x) == IsFinite(x) /\ x.v > 0

\* generateNoiseVector(key, iv, approximationFactor, dimensionality), the
\* random words drawn being draws.normal (two per coordinate) and
\* draws.point.
generateNoiseVector(key, iv, approximationFactor, dimensionality, draws) ==
    IF ~ IsBuffer(iv) THEN Throw("Error")
    ELSE IF ~ IsPositive(approximationFactor) THEN Throw("Error")
    ELSE IF dimensionality <= 0 THEN Throw("Error")
    ELSE LET normalVector == sampleNormalVector(dimensionality, draws.normal)
             uniformPoint == sampleUniformPoint(draws.point)
             scaledPoint == calculateUniformPointInBall(key.scalingFactor,
                                approximationFactor, uniformPoint, dimensionality)
         IN  Ok(normalizeVector(normalVector, scaledPoint))

---------------------------------------------------------------------------
(* dcpe/crypto: shuffle and unshuffle                                      *)

\* A value that is not an array, where an array is expected.
NotAnArray == <<[js |-> "not-an-array"]>>
IsArray(x) == x /= NotAnArray

\* bytes.readUInt32LE(0) of the digest HMAC-SHA-256(key, <<counter>>), by
\* its top 16 bits.  The digest is some fixed function of the key and the
\* counter byte; the model takes one such function for each key.
DigestWord(key, counter) ==
    LET seed == (IF key[1].src = [km |-> "A"] THEN 17 ELSE 29) + BLen(key)
    IN  (seed * 40503 + counter * 25173 + (counter * counter) * 97 + 13849) % 65536

\* The value of call number `calls` (from 0) of the function
\* createRngFromKey(key) returns, times 65536: the counter is a byte.
Rng(key, calls) == DigestWord(key, calls % 256)

\* One step of the loop, positions and indices counted from 1: the step at
\* position i of n is call number n - i of the generator, and swaps
\* indices[i] and indices[j].
SwapStep(key, indices, i, n) ==
    LET j == ((Rng(key, n - i) * i) \div 65536) + 1
    IN  [indices EXCEPT ![i] = indices[j], ![j] = indices[i]]

\* for (let i = indices.length - 1; i > 0; i--) { swap indices[i], indices[j] }:
\* the steps at positions hi, hi - 1, ..., lo in this order, split in two
\* halves, the first half computed before the second starts.
RECURSIVE FisherYates(_, _, _, _, _)
FisherYates(key, indices, hi, lo, n) ==
    IF hi < lo THEN indices
    ELSE IF hi = lo THEN SwapStep(key, indices, hi, n)
    ELSE LET mid == (hi + lo) \div 2
             upper == FisherYates(key, indices, hi, mid + 1, n)
         IN  IF Len(upper) = n THEN FisherYates(key, upper, mid, lo, n) ELSE upper

\* The permutation both functions build from the key for n elements.
ShuffledIndices(key, n) == FisherYates(key, [k \in 1..n |-> k], n, 2, n)

\* unshuffle(key, shuffledArray) moving the elements the way shuffle does
\* (a variant, for C4).
unshuffleForward(key, shuffledArray) ==
    IF ~ Truthy(key) \/ ~ IsArray(shuffledArray) THEN Throw("Error")
    ELSE LET indices == ShuffledIndices(key, Len(shuffledArray))
         IN  Ok([k \in 1..Len(shuffledArray) |-> shuffledArray[indices[k]]])

\* shuffle with a permutation that also depends on the first element of
\* the array (a variant, for C29).
shuffleByContents(key, inputArray) ==
    IF ~ Truthy(key) \/ ~ IsArray(inputArray) THEN Throw("Error")
    ELSE LET n == Len(inputArray)
             indices == ShuffledIndices(key, n)
             turn == IF n = 0 THEN 0 ELSE (inputArray[1].v \div Q) % n
         IN  Ok([k \in 1..n |-> inputArray[indices[((k - 1 + turn) % n) + 1]]])

\* shuffle(key, inputArray)
shuffle(key, inputArray) ==
    IF ~ Truthy(key) \/ ~ IsArray(inputArray) THEN Throw("Error")
    ELSE LET indices == ShuffledIndices(key, Len(inputArray))
         IN  Ok([k \in 1..Len(inputArray) |-> inputArray[indices[k]]])

\* unshuffle(key, shuffledArray)
unshuffle(key, shuffledArray) ==
    IF ~ Truthy(key) \/ ~ IsArray(shuffledArray) THEN Throw("Error")
    ELSE LET n == Len(shuffledArray)
             indices == ShuffledIndices(key, n)
             reverseMap == [p \in 1..n |-> CHOOSE i \in 1..n : indices[i] = p]
         IN  Ok([i \in 1..n |-> shuffledArray[reverseMap[i]]])

---------------------------------------------------------------------------
(* dcpe/crypto: AuthHash, computeAuthHash, encryptVector, decryptVector    *)

\* new AuthHash(hashBytes)
AuthHash(hashBytes) ==
    IF ~ IsBuffer(hashBytes) THEN Throw("TypeError")
    ELSE IF BLen(hashBytes) /= 32 THEN Throw("Error")
    ELSE Ok([class |-> "AuthHash", hashBytes |-> hashBytes])

\* An object that is no AuthHash and holds the bytes hashBytes.
PlainObject(hashBytes) == [class |-> "Object", hashBytes |-> hashBytes]

\* this.equals(other) without the instanceof test (a variant, for C2).
AuthHashEqualsBytes(this, other) == this.hashBytes = other.hashBytes

\* this.equals(other)
AuthHashEquals(this, other) ==
    other.class = "AuthHash" /\ this.hashBytes = other.hashBytes

RECURSIVE Float32BytesOfAll(_)
Float32BytesOfAll(vector) ==
    IF vector = <<>> THEN <<>>
    ELSE Concat(Float32Bytes(vector[1]), Float32BytesOfAll(Tail(vector)))

\* computeAuthHash(key, approximationFactor, iv, encryptedVector)
computeAuthHash(key, approximationFactor, iv, encryptedVector) ==
    AuthHash(HmacSha256(key.key,
                 Concat(Concat(Concat(Float32Bytes(key.scalingFactor),
                                      Float32Bytes(approximationFactor)), iv),
                        Float32BytesOfAll(encryptedVector)))).val

\* encryptVector(key, approximationFactor, vector), with the iv and the
\* random words drawn.
encryptVector(key, approximationFactor, vector, iv, draws) ==
    IF key.scalingFactor = Fin(0) THEN Throw("InvalidKeyError")
    ELSE LET noise == generateNoiseVector(key, iv, approximationFactor, Len(vector), draws)
         IN  IF ~ IsOk(noise) THEN noise
             ELSE LET ciphertext == [i \in 1..Len(vector) |->
                                        Add(Mul(key.scalingFactor, vector[i]), noise.val[i])]
                  IN  IF \E i \in 1..Len(vector) : ~ IsFinite(ciphertext[i])
                      THEN Throw("Error")
                      ELSE Ok([ciphertext |-> ciphertext, iv |-> iv,
                               authHash |-> computeAuthHash(key, approximationFactor,
                                                            iv, ciphertext)])

\* decryptVector comparing the authentication hash before it looks at the
\* scaling factor (a variant, for C13).
decryptVectorHashFirst(key, approximationFactor, encryptedResult, draws) ==
    LET ciphertext == encryptedResult.ciphertext
        iv == encryptedResult.iv
        authHash == encryptedResult.authHash
    IN  IF ~ AuthHashEquals(computeAuthHash(key, approximationFactor, iv, ciphertext),
                            authHash)
        THEN Throw("DecryptError")
        ELSE IF key.scalingFactor = Fin(0) THEN Throw("InvalidKeyError")
        ELSE LET noise == generateNoiseVector(key, iv, approximationFactor,
                                              Len(ciphertext), draws)
             IN  IF ~ IsOk(noise) THEN noise
                 ELSE Ok([i \in 1..Len(ciphertext) |->
                             Div(Sub(ciphertext[i], noise.val[i]), key.scalingFactor)])

\* decryptVector(key, approximationFactor, encryptedResult), with the
\* random words drawn.
decryptVector(key, approximationFactor, encryptedResult, draws) ==
    IF key.scalingFactor = Fin(0) THEN Throw("InvalidKeyError")
    ELSE LET ciphertext == encryptedResult.ciphertext
             iv == encryptedResult.iv
             authHash == encryptedResult.authHash
         IN  IF ~ AuthHashEquals(computeAuthHash(key, approximationFactor, iv, ciphertext),
                                 authHash)
             THEN Throw("DecryptError")
             ELSE LET noise == generateNoiseVector(key, iv, approximationFactor,
                                                   Len(ciphertext), draws)
                  IN  IF ~ IsOk(noise) THEN noise
                      ELSE Ok([i \in 1..Len(ciphertext) |->
                                  Div(Sub(ciphertext[i], noise.val[i]), key.scalingFactor)])

---------------------------------------------------------------------------
(* dcpe/headers: KeyIdHeader and the vector metadata                       *)

\* Object.values(EdekType) and Object.values(PayloadType)
EdekType == <<"Standalone", "SaasShield", "DataControlPlatform">>
PayloadType == <<"DeterministicField", "VectorMetadata", "StandardEdek">>

\* values.indexOf(x), and -1 for none.
IndexOf(values, x) ==
    IF \E i \in 1..Len(values) : values[i] = x
    THEN (CHOOSE i \in 1..Len(values) : values[i] = x) - 1
    ELSE -1

\* A keyId: an integer of 0 .. 2^32 - 1, written as its two 16-bit halves,
\* keyId = hi * 65536 + lo.
UInt32(hi, lo) == [hi |-> hi, lo |-> lo]
UInt32Of(n) == UInt32(n \div 65536, n % 65536)

\* A keyId that is not a number.
NotAKeyId == [js |-> "not-a-number"]

\* new KeyIdHeader(keyId, edekType, payloadType)
KeyIdHeader(keyId, edekType, payloadType) ==
    IF keyId = NotAKeyId THEN Throw("TypeError")
    ELSE IF IndexOf(EdekType, edekType) < 0 THEN Throw("TypeError")
    ELSE IF IndexOf(PayloadType, payloadType) < 0 THEN Throw("TypeError")
    ELSE Ok([keyId |-> keyId, edekType |-> edekType, payloadType |-> payloadType])

\* header._encodeTypeByte() with the two indices in each other's place (a
\* variant, for C15).
EncodeTypeByteSwapped(header) ==
    IndexOf(PayloadType, header.payloadType) * 16 + IndexOf(EdekType, header.edekType)

\* header._encodeTypeByte(): (edek index << 4) | payload index.
EncodeTypeByte(header) ==
    IndexOf(EdekType, header.edekType) * 16 + IndexOf(PayloadType, header.payloadType)

\* header.writeToBytes(): writeUInt32BE(keyId, 0), the type byte, a zero.
WriteToBytes(header) ==
    Lit(<<header.keyId.hi \div 256, header.keyId.hi % 256,
          header.keyId.lo \div 256, header.keyId.lo % 256,
          EncodeTypeByte(header), 0>>)

\* KeyIdHeader._decodeTypeByte(typeByte) testing the edek type only (a
\* variant, for C16).
DecodeTypeByteOfEdekOnly(typeByte) ==
    LET edekTypeIndex == typeByte \div 16
        payloadTypeIndex == typeByte % 16
    IN  IF edekTypeIndex >= Len(EdekType) THEN Throw("InvalidInputError")
        ELSE Ok([edekType |-> EdekType[edekTypeIndex + 1],
                 payloadType |-> IF payloadTypeIndex >= Len(PayloadType)
                                 THEN "undefined"
                                 ELSE PayloadType[payloadTypeIndex + 1]])

\* KeyIdHeader._decodeTypeByte(typeByte)
DecodeTypeByte(typeByte) ==
    LET edekTypeIndex == typeByte \div 16
        payloadTypeIndex == typeByte % 16
    IN  IF edekTypeIndex >= Len(EdekType) \/ payloadTypeIndex >= Len(PayloadType)
        THEN Throw("InvalidInputError")
        ELSE Ok([edekType |-> EdekType[edekTypeIndex + 1],
                 payloadType |-> PayloadType[payloadTypeIndex + 1]])

\* KeyIdHeader.parseFromBytes(headerBytes), for a Buffer of literal bytes.
ParseFromBytes(headerBytes) ==
    IF BLen(headerBytes) /= 6 THEN Throw("InvalidInputError")
    ELSE LET b == headerBytes[1].lit
             keyId == UInt32(b[1] * 256 + b[2], b[3] * 256 + b[4])
             types == DecodeTypeByte(b[5])
         IN  IF b[6] /= 0 THEN Throw("InvalidInputError")
             ELSE IF ~ IsOk(types) THEN types
             ELSE KeyIdHeader(keyId, types.val.edekType, types.val.payloadType)

\* encodeVectorMetadata with the hash before the iv (a variant, for C17).
encodeVectorMetadataHashFirst(keyIdHeader, iv, authHash) ==
    Concat(Concat(WriteToBytes(keyIdHeader), authHash.hashBytes), iv)

\* encodeVectorMetadata(keyIdHeader, iv, authHash)
encodeVectorMetadata(keyIdHeader, iv, authHash) ==
    Concat(Concat(WriteToBytes(keyIdHeader), iv), authHash.hashBytes)

\* decodeVersionPrefixedValue(valueBytes)
decodeVersionPrefixedValue(valueBytes) ==
    IF BLen(valueBytes) < 6 THEN Throw("InvalidInputError")
    ELSE LET keyIdHeader == ParseFromBytes(Subarray(valueBytes, 0, 6))
         IN  IF ~ IsOk(keyIdHeader) THEN keyIdHeader
             ELSE Ok([keyIdHeader |-> keyIdHeader.val,
                      remainingBytes |-> Subarray(valueBytes, 6, BLen(valueBytes))])

---------------------------------------------------------------------------
(* dcpe/keys: EncryptionKey, ScalingFactor, VectorEncryptionKey            *)

\* The n bytes of the key material named id.  Material of one name and two
\* lengths agrees on the common prefix.
KeyMaterial(id, n) == TermBytes([km |-> id], n)

UndefinedKey == [scalingFactor |-> NotANumber, key |-> Undefined]

\* new EncryptionKey(keyBytes): keeps the Buffer.
EncryptionKey(keyBytes) ==
    IF ~ IsBuffer(keyBytes) THEN Throw("TypeError") ELSE Ok(keyBytes)

\* new ScalingFactor(factor)
ScalingFactor(factor) ==
    IF ~ IsNumber(factor) THEN Throw("TypeError") ELSE Ok(factor)

\* new VectorEncryptionKey(new ScalingFactor(factor), new EncryptionKey(keyBytes))
VectorEncryptionKey(factor, keyBytes) ==
    IF ~ IsOk(ScalingFactor(factor)) THEN ScalingFactor(factor)
    ELSE IF ~ IsOk(EncryptionKey(keyBytes)) THEN EncryptionKey(keyBytes)
    ELSE Ok([scalingFactor |-> ScalingFactor(factor).val,
             key |-> EncryptionKey(keyBytes).val])

---------------------------------------------------------------------------
(* dcpe/rag_encryption: RagEncryptionClient                                *)

\* The object `new RagEncryptionClient(null, 1.0, null, null, true)` leaves:
\* no field is set.
BlankClient ==
    [vectorEncryptionKey |-> UndefinedKey,
     textEncryptionKey |-> Undefined,
     deterministicEncryptionKey |-> Undefined,
     approximationFactor |-> NotANumber,
     keyId |-> "",
     keyProvider |-> "",
     oldVectorEncryptionKey |-> UndefinedKey,
     oldTextEncryptionKey |-> Undefined,
     oldDeterministicEncryptionKey |-> Undefined]

\* _initializeWithKey: the fields after the call, or the error thrown.
InitializeWithKey(c, encryptionKey, approximationFactor) ==
    IF ~ IsBuffer(encryptionKey) \/ BLen(encryptionKey) < 32
    THEN Throw("InvalidInputError")
    ELSE IF ~ IsNumber(approximationFactor) THEN Throw("InvalidInputError")
    ELSE Ok([c EXCEPT
               !.vectorEncryptionKey =
                   VectorEncryptionKey(approximationFactor, encryptionKey).val,
               !.textEncryptionKey = EncryptionKey(encryptionKey).val,
               !.deterministicEncryptionKey = EncryptionKey(encryptionKey).val,
               !.approximationFactor = approximationFactor,
               !.keyId = "local-key",
               !.keyProvider = ""])

\* new RagEncryptionClient(encryptionKey, approximationFactor, keyProvider, keyId)
Constructor(encryptionKey, approximationFactor, keyProvider, keyId) ==
    IF keyProvider /= "" \/ keyId /= "" THEN Throw("InvalidInputError")
    ELSE IF ~ Truthy(encryptionKey) THEN Throw("InvalidInputError")
    ELSE InitializeWithKey(BlankClient, encryptionKey, approximationFactor)

\* A key provider: none (null), an object with a getKey method, an object
\* without one.
NoProvider == ""
Provider == "provider"
ProviderWithoutGetKey == "no-getKey"

\* _initializeWithKeyProvider, `await keyProvider.getKey(keyId)` having
\* settled with `got`: Ok(what it resolved to) or a rejection.  Every error
\* of the try block is thrown again as InvalidInputError.
InitializeWithKeyProvider(c, keyProvider, keyId, approximationFactor, got) ==
    IF ~ IsOk(got) THEN Throw("InvalidInputError")
    ELSE LET r == InitializeWithKey(c, got.val, approximationFactor)
         IN  IF ~ IsOk(r) THEN Throw("InvalidInputError")
             ELSE Ok([r.val EXCEPT !.keyId = keyId, !.keyProvider = keyProvider])

\* RagEncryptionClient.create(encryptionKey, approximationFactor, keyProvider,
\* keyId), the provider's getKey, where called, having settled with `got`:
\* the client the promise resolves to, or the error it rejects with.
Create(encryptionKey, approximationFactor, keyProvider, keyId, got) ==
    IF keyProvider /= NoProvider /\ keyId /= ""
    THEN IF keyProvider = ProviderWithoutGetKey THEN Throw("TypeError")
         ELSE InitializeWithKeyProvider(BlankClient, keyProvider, keyId,
                                        approximationFactor, got)
    ELSE IF Truthy(encryptionKey)
    THEN InitializeWithKey(BlankClient, encryptionKey, approximationFactor)
    ELSE Throw("InvalidInputError")

\* The update of the current keys that leaves the deterministic key as it
\* was (a variant, for C19).
InstallKeyWithoutDeterministic(c, newKey) ==
    LET vk == VectorEncryptionKey(c.approximationFactor, newKey)
    IN  IF ~ IsOk(vk) THEN [c |-> c, r |-> vk]
        ELSE [c |-> [c EXCEPT !.vectorEncryptionKey = vk.val,
                              !.textEncryptionKey = EncryptionKey(newKey).val],
              r |-> Ok(<<>>)]

\* rotateKey up to its first suspension: the old keys are recorded, then
\* either the call awaits the provider ("await"), or it throws, or it
\* installs the given material.  [c |-> the fields then, r |-> the outcome].
InstallKey(c, newKey) ==
    LET vk == VectorEncryptionKey(c.approximationFactor, newKey)
    IN  IF ~ IsOk(vk) THEN [c |-> c, r |-> vk]
        ELSE [c |-> [c EXCEPT !.vectorEncryptionKey = vk.val,
                              !.textEncryptionKey = EncryptionKey(newKey).val,
                              !.deterministicEncryptionKey = EncryptionKey(newKey).val],
              r |-> Ok(<<>>)]

RotateKeyStart(c, newKeyMaterial, newKeyId) ==
    LET c1 == [c EXCEPT !.oldVectorEncryptionKey = c.vectorEncryptionKey,
                        !.oldTextEncryptionKey = c.textEncryptionKey,
                        !.oldDeterministicEncryptionKey = c.deterministicEncryptionKey]
    IN  IF c.keyProvider /= "" /\ newKeyId /= ""
        THEN [c |-> c1, r |-> [kind |-> "await"]]
        ELSE IF Truthy(newKeyMaterial)
             THEN IF ~ IsBuffer(newKeyMaterial) \/ BLen(newKeyMaterial) < 32
                  THEN [c |-> c1, r |-> Throw("InvalidInputError")]
                  ELSE InstallKey(c1, newKeyMaterial)
             ELSE [c |-> c1, r |-> Throw("InvalidInputError")]

\* rotateKey after `await this.keyProvider.getKey(newKeyId)` settled with
\* `got`: Ok(material) or a rejection.
RotateKeyResume(c, newKeyId, got) ==
    IF ~ IsOk(got) THEN [c |-> c, r |-> Throw("InvalidInputError")]
    ELSE InstallKey([c EXCEPT !.keyId = newKeyId], got.val)

\* keyId.split('').reduce((a, c) => a + c.charCodeAt(0), 0) for the key
\* ids of the model.
CharCodeSum(keyId) ==
    CASE keyId = "local-key" -> 897
      [] keyId = "k1" -> 156
      [] keyId = "k2" -> 157

\* client.encryptVector(plaintextVector), with the iv and the random words
\* drawn: [ciphertext, metadata].
EncryptVector(c, plaintextVector, iv, draws) ==
    IF ~ IsArray(plaintextVector)
          \/ \E i \in 1..Len(plaintextVector) : ~ IsNumber(plaintextVector[i])
    THEN Throw("InvalidInputError")
    ELSE LET shuffledVector == shuffle(c.textEncryptionKey, plaintextVector)
         IN  IF ~ IsOk(shuffledVector) THEN shuffledVector
             ELSE LET encryptResult == encryptVector(c.vectorEncryptionKey,
                                           c.approximationFactor, shuffledVector.val,
                                           iv, draws)
                      keyIdHeader == KeyIdHeader(
                                         UInt32Of((IF c.keyId /= "" THEN CharCodeSum(c.keyId)
                                                   ELSE 1) % 9999),
                                         "Standalone", "VectorMetadata")
                  IN  IF ~ IsOk(encryptResult) THEN encryptResult
                      ELSE Ok([ciphertext |-> encryptResult.val.ciphertext,
                               metadata |-> encodeVectorMetadata(keyIdHeader.val,
                                                encryptResult.val.iv,
                                                encryptResult.val.authHash)])

\* client.decryptVector refusing metadata whose header names another key
\* id than the client's (a variant, for C30).
DecryptVectorOfOwnKeyId(c, encryptedVector, pairedIclInfo, draws) ==
    IF ~ IsArray(encryptedVector)
          \/ \E i \in 1..Len(encryptedVector) : ~ IsNumber(encryptedVector[i])
    THEN Throw("InvalidInputError")
    ELSE IF ~ IsBuffer(pairedIclInfo) THEN Throw("InvalidInputError")
    ELSE LET decoded == decodeVersionPrefixedValue(pairedIclInfo)
         IN  IF ~ IsOk(decoded) THEN decoded
             ELSE IF decoded.val.keyIdHeader.keyId
                        /= UInt32Of((IF c.keyId /= "" THEN CharCodeSum(c.keyId) ELSE 1) % 9999)
             THEN Throw("InvalidInputError")
             ELSE LET remainingBytes == decoded.val.remainingBytes
                      iv == Subarray(remainingBytes, 0, 12)
                      authHash == AuthHash(Subarray(remainingBytes, 12, BLen(remainingBytes)))
                  IN  IF ~ IsOk(authHash) THEN authHash
                      ELSE LET shuffledVector ==
                                   decryptVector(c.vectorEncryptionKey, c.approximationFactor,
                                       [ciphertext |-> encryptedVector, iv |-> iv,
                                        authHash |-> authHash.val], draws)
                           IN  IF ~ IsOk(shuffledVector) THEN shuffledVector
                               ELSE unshuffle(c.textEncryptionKey, shuffledVector.val)

\* client.decryptVector(encryptedVector, pairedIclInfo), with the random
\* words drawn.
DecryptVector(c, encryptedVector, pairedIclInfo, draws) ==
    IF ~ IsArray(encryptedVector)
          \/ \E i \in 1..Len(encryptedVector) : ~ IsNumber(encryptedVector[i])
    THEN Throw("InvalidInputError")
    ELSE IF ~ IsBuffer(pairedIclInfo) THEN Throw("InvalidInputError")
    ELSE LET decoded == decodeVersionPrefixedValue(pairedIclInfo)
         IN  IF ~ IsOk(decoded) THEN decoded
             ELSE LET remainingBytes == decoded.val.remainingBytes
                      iv == Subarray(remainingBytes, 0, 12)
                      authHash == AuthHash(Subarray(remainingBytes, 12, BLen(remainingBytes)))
                  IN  IF ~ IsOk(authHash) THEN authHash
                      ELSE LET shuffledVector ==
                                   decryptVector(c.vectorEncryptionKey, c.approximationFactor,
                                       [ciphertext |-> encryptedVector, iv |-> iv,
                                        authHash |-> authHash.val], draws)
                           IN  IF ~ IsOk(shuffledVector) THEN shuffledVector
                               ELSE unshuffle(c.textEncryptionKey, shuffledVector.val)

\* encryptText giving the cipher the whole key material, not its first 32
\* bytes (a variant, for C9).
EncryptTextWholeKey(c, plaintext, iv) ==
    LET enc == GcmEncrypt(c.textEncryptionKey, iv, BufferFromString(plaintext))
    IN  IF ~ IsOk(enc) THEN enc
        ELSE Ok([ciphertext |-> enc.val.ciphertext, iv |-> iv, tag |-> enc.val.tag])

\* encryptText(plaintext): iv is the crypto.randomBytes(12) drawn.
EncryptText(c, plaintext, iv) ==
    IF ~ IsString(plaintext) THEN Throw("InvalidInputError")
    ELSE LET key == Subarray(c.textEncryptionKey, 0, 32)
             enc == GcmEncrypt(key, iv, BufferFromString(plaintext))
         IN  IF ~ IsOk(enc) THEN enc
             ELSE Ok([ciphertext |-> enc.val.ciphertext, iv |-> iv, tag |-> enc.val.tag])

\* decryptText(ciphertext, iv, tag): no error of the cipher is caught.
DecryptText(c, ciphertext, iv, tag) ==
    IF ~ IsBuffer(ciphertext) \/ ~ IsBuffer(iv) \/ ~ IsBuffer(tag)
    THEN Throw("InvalidInputError")
    ELSE LET key == Subarray(c.textEncryptionKey, 0, 32)
             dec == GcmDecrypt(key, iv, ciphertext, tag)
         IN  IF ~ IsOk(dec) THEN dec ELSE Ok(BufferToString(dec.val))

\* The derived key taken from the first 32 bytes of the deterministic key
\* only, as the text key is (a variant, for C21).
DerivedKeyOfFirst32(c) ==
    hkdf(Subarray(c.deterministicEncryptionKey, 0, 32), 32,
         StrBytes("DCPE-Deterministic", 18), StrBytes("deterministic_encryption_key", 28))

\* The key both deterministic operations derive.
DerivedKey(c) ==
    hkdf(c.deterministicEncryptionKey, 32,
         StrBytes("DCPE-Deterministic", 18), StrBytes("deterministic_encryption_key", 28))

\* encryptDeterministicText with a nonce that also depends on the keys the
\* client held before (a variant, for C5).
EncryptDeterministicTextByHistory(c, plaintext) ==
    LET derivedKey == DerivedKey(c).val
        pt == BufferFromString(plaintext)
        nonce == Subarray(HmacSha256(derivedKey,
                                     <<[hist |-> c.oldDeterministicEncryptionKey,
                                        pt |-> pt]>>), 0, 12)
        enc == GcmEncrypt(derivedKey, nonce, pt)
    IN  Ok(Concat(Concat(nonce, enc.val.ciphertext), enc.val.tag))

\* encryptDeterministicText of the first UTF-16 code unit of the plaintext
\* only (a variant, for C6).
EncryptDeterministicTextOfFirstUnit(c, plaintext) ==
    LET derivedKey == DerivedKey(c).val
        pt == BufferFromString(SubSeq(plaintext, 1, Min(1, Len(plaintext))))
        deterministicNonce == Subarray(HmacSha256(derivedKey, pt), 0, 12)
        enc == GcmEncrypt(derivedKey, deterministicNonce, pt)
    IN  Ok(Concat(Concat(deterministicNonce, enc.val.ciphertext), enc.val.tag))

\* encryptDeterministicText(plaintext)
EncryptDeterministicText(c, plaintext) ==
    IF ~ IsString(plaintext) THEN Throw("InvalidInputError")
    ELSE LET dk == DerivedKey(c)
         IN  IF ~ IsOk(dk) THEN dk
             ELSE LET derivedKey == dk.val
                      pt == BufferFromString(plaintext)
                      deterministicNonce == Subarray(HmacSha256(derivedKey, pt), 0, 12)
                      enc == GcmEncrypt(derivedKey, deterministicNonce, pt)
                  IN  IF ~ IsOk(enc) THEN enc
                      ELSE Ok(Concat(Concat(deterministicNonce, enc.val.ciphertext),
                                     enc.val.tag))

\* decryptDeterministicText with a length check that rejects 28 bytes too
\* (a variant, for C7).
DecryptDeterministicTextAbove28(c, encryptedData) ==
    IF BLen(encryptedData) < 29 THEN Throw("InvalidInputError")
    ELSE LET n == BLen(encryptedData)
             dec == GcmDecrypt(DerivedKey(c).val, Subarray(encryptedData, 0, 12),
                               Subarray(encryptedData, 12, n - 16),
                               Subarray(encryptedData, n - 16, n))
         IN  IF ~ IsOk(dec) THEN Throw("DecryptError") ELSE Ok(BufferToString(dec.val))

\* decryptDeterministicText without the catch of the cipher's errors (a
\* variant, for C8).
DecryptDeterministicTextUncaught(c, encryptedData) ==
    IF BLen(encryptedData) < 28 THEN Throw("InvalidInputError")
    ELSE LET n == BLen(encryptedData)
             dec == GcmDecrypt(DerivedKey(c).val, Subarray(encryptedData, 0, 12),
                               Subarray(encryptedData, 12, n - 16),
                               Subarray(encryptedData, n - 16, n))
         IN  IF ~ IsOk(dec) THEN dec ELSE Ok(BufferToString(dec.val))

\* decryptDeterministicText(encryptedData): every error of the cipher is
\* caught and thrown again as DecryptError.
DecryptDeterministicText(c, encryptedData) ==
    IF ~ IsBuffer(encryptedData) THEN Throw("InvalidInputError")
    ELSE IF BLen(encryptedData) < 28 THEN Throw("InvalidInputError")
    ELSE LET n == BLen(encryptedData)
             nonce == Subarray(encryptedData, 0, 12)
             ciphertext == Subarray(encryptedData, 12, n - 16)
             tag == Subarray(encryptedData, n - 16, n)
             dk == DerivedKey(c)
         IN  IF ~ IsOk(dk) THEN dk
             ELSE LET dec == GcmDecrypt(dk.val, nonce, ciphertext, tag)
                  IN  IF ~ IsOk(dec) THEN Throw("DecryptError")
                      ELSE Ok(BufferToString(dec.val))

---------------------------------------------------------------------------
(* The text operations of the clients                                      *)

\* How many values the OS randomness may take per draw of an IV.
MaxIvDraws == 2

\* Key material a caller may hold: 32 and 33 bytes of one secret, 32 bytes
\* of another.
ValidMaterials == {KeyMaterial("A", 32), KeyMaterial("A", 33), KeyMaterial("B", 32)}

\* What a caller may pass as newKeyMaterial.
MaterialArgs == ValidMaterials \cup {KeyMaterial("A", 31), Null, NotABuffer}

\* Plaintexts: "", "A", a high surrogate on its own, U+FFFD, and U+1F600
\* (a surrogate pair).
PlainTexts == {<<>>, <<65>>, <<55296>>, <<65533>>, <<55357, 56832>>}

NoValue == [op |-> "none"]

\* The ways a stored (ciphertext, iv, tag) may reach decryptText.
TextTampers == {"none", "tag", "ciphertext", "iv", "short-tag"}

\* The ways a stored deterministic blob may reach decryptDeterministicText.
BlobTampers == {"none", "tag", "cut-27", "cut-28", "empty"}

\* buf with its byte number i (from 0) replaced by another value.
FlipByte(buf, i) ==
    IF i < 0 \/ i >= BLen(buf) THEN buf
    ELSE LET other == IF Slice(buf, i, i + 1) = Lit(<<0>>) THEN Lit(<<1>>) ELSE Lit(<<0>>)
         IN  Concat(Concat(Slice(buf, 0, i), other), Slice(buf, i + 1, BLen(buf)))

TamperText(v, how) ==
    CASE how = "none"       -> v
      [] how = "tag"        -> [v EXCEPT !.tag = FlipByte(v.tag, 15)]
      [] how = "ciphertext" -> [v EXCEPT !.ciphertext = FlipByte(v.ciphertext, 0)]
      [] how = "iv"         -> [v EXCEPT !.iv = FlipByte(v.iv, 0)]
      [] how = "short-tag"  -> [v EXCEPT !.tag = Subarray(v.tag, 0, 4)]

TamperBlob(b, how) ==
    CASE how = "none"   -> b
      [] how = "tag"    -> FlipByte(b, BLen(b) - 1)
      [] how = "cut-27" -> Subarray(b, 0, 27)
      [] how = "cut-28" -> Subarray(b, 0, 28)
      [] how = "empty"  -> <<>>

\* A client built by `new RagEncryptionClient(material, 1.0)`.
InitClient ==
    client \in {Constructor(m, Num(1), "", "").val : m \in ValidMaterials}

Init ==
    /\ InitClient
    /\ pending = <<>>
    /\ stored = NoValue
    /\ out = NoValue
    /\ shuf = NoValue
    /\ dcpe = NoDcpe
    /\ clientInstance = NoClient

\* How many rotateKey calls may be suspended at their await at a time.
MaxPending == 2

\* The three current keys of the client.
KeyTriple(c) ==
    [vector |-> c.vectorEncryptionKey, text |-> c.textEncryptionKey,
     deterministic |-> c.deterministicEncryptionKey]

\* await client.rotateKey(newKeyMaterial, newKeyId), up to its first await.
RotateKey(newKeyMaterial, newKeyId) ==
    LET got == RotateKeyStart(client, newKeyMaterial, newKeyId)
    IN  /\ got.r.kind = "await" => Len(pending) < MaxPending
        /\ client' = got.c
        /\ pending' = IF got.r.kind = "await"
                      THEN Append(pending, [newKeyId |-> newKeyId])
                      ELSE pending
        /\ out' = [op |-> "rotateKey", newKeyId |-> newKeyId,
                   before |-> KeyTriple(client), beforeId |-> client.keyId,
                   beforeFactor |-> client.approximationFactor, r |-> got.r]
        /\ UNCHANGED <<stored, shuf, dcpe, clientInstance>>

DoEncryptText(plaintext, draw) ==
    /\ out' = [op |-> "encryptText",
               key |-> client.textEncryptionKey, pt |-> plaintext,
               r |-> EncryptText(client, plaintext, RandomBytes(draw, 12))]
    /\ UNCHANGED <<client, pending, stored, shuf, dcpe, clientInstance>>

DoEncryptDeterministicText(plaintext) ==
    /\ out' = [op |-> "encryptDeterministicText",
               key |-> client.deterministicEncryptionKey, pt |-> plaintext,
               r |-> EncryptDeterministicText(client, plaintext)]
    /\ UNCHANGED <<client, pending, stored, shuf, dcpe, clientInstance>>

\* The caller writes the result of the last encryption to the external store.
Store ==
    /\ out.op \in {"encryptText", "encryptDeterministicText"}
    /\ IsOk(out.r)
    /\ stored' = [op |-> out.op, key |-> out.key, pt |-> out.pt, val |-> out.r.val]
    /\ UNCHANGED <<client, pending, out, shuf, dcpe, clientInstance>>

DoDecryptText(how) ==
    /\ stored.op = "encryptText"
    /\ LET in == TamperText(stored.val, how)
       IN  out' = [op |-> "decryptText",
                   key |-> client.textEncryptionKey, how |-> how, in |-> in,
                   r |-> DecryptText(client, in.ciphertext, in.iv, in.tag)]
    /\ UNCHANGED <<client, pending, stored, shuf, dcpe, clientInstance>>

DoDecryptDeterministicText(how) ==
    /\ stored.op = "encryptDeterministicText"
    /\ LET in == TamperBlob(stored.val, how)
       IN  out' = [op |-> "decryptDeterministicText",
                   key |-> client.deterministicEncryptionKey, how |-> how, in |-> in,
                   r |-> DecryptDeterministicText(client, in)]
    /\ UNCHANGED <<client, pending, stored, shuf, dcpe, clientInstance>>

Next ==
    \/ \E m \in MaterialArgs : RotateKey(m, "")
    \/ \E pt \in PlainTexts, d \in 1..MaxIvDraws : DoEncryptText(pt, d)
    \/ \E pt \in PlainTexts : DoEncryptDeterministicText(pt)
    \/ Store
    \/ \E how \in TextTampers : DoDecryptText(how)
    \/ \E how \in BlobTampers : DoDecryptDeterministicText(how)

Spec == Init /\ [][Next]_vars

---------------------------------------------------------------------------
(* Properties of the text operations (specification Spec)                  *)

\* s with every surrogate that is not half of a pair replaced by U+FFFD
\* (String.prototype.toWellFormed); s itself when s is well formed.
RECURSIVE ToWellFormed(_)
ToWellFormed(s) ==
    IF s = <<>> THEN <<>>
    ELSE IF IsHighSurrogate(s[1]) /\ Len(s) >= 2 /\ IsLowSurrogate(s[2])
    THEN <<s[1], s[2]>> \o ToWellFormed(SubSeq(s, 3, Len(s)))
    ELSE IF IsHighSurrogate(s[1]) \/ IsLowSurrogate(s[1])
    THEN <<65533>> \o ToWellFormed(Tail(s))
    ELSE <<s[1]>> \o ToWellFormed(Tail(s))

\* The last call and the stored value are two deterministic encryptions
\* under equal deterministic key bytes.
TwoDeterministicCalls ==
    /\ out.op = "encryptDeterministicText"
    /\ stored.op = "encryptDeterministicText"
    /\ out.key = stored.key

\* C5: two calls of encryptDeterministicText under equal deterministic key
\* bytes and with the same plaintext string return byte-identical blobs,
\* whatever was called or rotated in between.
C5_DeterministicIsStable ==
    (TwoDeterministicCalls /\ out.pt = stored.pt)
        => (IsOk(out.r) /\ out.r.val = stored.val)

\* C5 witness: the same plaintext encrypted again after the client rotated
\* to other key bytes and back.
C5_Witness ==
    /\ TwoDeterministicCalls
    /\ out.pt = stored.pt
    /\ IsOk(out.r)
    /\ IsBuffer(client.oldDeterministicEncryptionKey)
    /\ client.oldDeterministicEncryptionKey /= client.deterministicEncryptionKey

\* C6 (as stated): under one key, two different plaintext strings give
\* different blobs.
C6_DistinctStringsDistinctBlobs ==
    (TwoDeterministicCalls /\ out.pt /= stored.pt)
        => (IsOk(out.r) /\ out.r.val /= stored.val)

\* C6 (amended): under one key, two plaintext strings give the same blob
\* exactly when their UTF-8 encodings are the same bytes; two different
\* well-formed strings therefore give different blobs.
C6_DistinctEncodingsDistinctBlobs ==
    TwoDeterministicCalls
        => /\ IsOk(out.r)
           /\ (out.r.val = stored.val) <=> (Utf8Encode(out.pt) = Utf8Encode(stored.pt))
           /\ (/\ out.pt /= stored.pt
               /\ ToWellFormed(out.pt) = out.pt
               /\ ToWellFormed(stored.pt) = stored.pt) => out.r.val /= stored.val

\* C6 witness: two different well-formed strings encrypted under one key.
C6_Witness ==
    /\ TwoDeterministicCalls
    /\ IsOk(out.r)
    /\ out.pt = <<65>>
    /\ stored.pt = <<55357, 56832>>

\* The last call decrypted the stored deterministic blob, unaltered, under
\* the deterministic key bytes that made it.
DeterministicRoundTrip ==
    /\ out.op = "decryptDeterministicText"
    /\ stored.op = "encryptDeterministicText"
    /\ out.how = "none"
    /\ out.key = stored.key

\* Every deterministic blob is 28 bytes longer than the UTF-8 encoding of
\* its plaintext, laid out nonce(12), ciphertext, tag(16).
DeterministicLayout ==
    out.op = "encryptDeterministicText"
        => /\ IsOk(out.r)
           /\ BLen(out.r.val) = 28 + Len(Utf8Encode(out.pt))
           /\ BLen(out.r.val) >= 28

\* C7 (as stated): decryptDeterministicText(encryptDeterministicText(pt))
\* returns pt for every string pt, and the blob is 28 + |utf8(pt)| bytes.
C7_RoundTripReturnsPlaintext ==
    /\ DeterministicLayout
    /\ DeterministicRoundTrip => out.r = Ok(stored.pt)

\* C7 (amended): decryptDeterministicText(encryptDeterministicText(pt))
\* returns pt with every unpaired surrogate replaced by U+FFFD, which is pt
\* for every well-formed string (the empty one included); the blob is
\* 28 + |utf8(pt)| bytes and the length check never rejects it.
C7_RoundTripReturnsWellFormed ==
    /\ DeterministicLayout
    /\ DeterministicRoundTrip
         => /\ out.r = Ok(ToWellFormed(stored.pt))
            /\ ToWellFormed(stored.pt) = stored.pt => out.r = Ok(stored.pt)

\* C7 witness: the empty string came back from its 28-byte blob.
C7_Witness ==
    /\ DeterministicRoundTrip
    /\ stored.pt = <<>>
    /\ BLen(stored.val) = 28
    /\ out.r = Ok(<<>>)

\* The Buffer given to the last decryptDeterministicText is not a blob made
\* under the client's deterministic key: its opening fails.
DeterministicOpeningFails ==
    out.in /= stored.val \/ out.key /= stored.key

\* C8: decryptDeterministicText on a Buffer throws InvalidInputError
\* exactly when the Buffer is shorter than 28 bytes; on a Buffer of 28 bytes
\* or more whose opening fails it throws DecryptError; neither returns a
\* plaintext.
C8_DeterministicDecryptErrors ==
    out.op = "decryptDeterministicText"
        => /\ (out.r.kind = "InvalidInputError") <=> (BLen(out.in) < 28)
           /\ (BLen(out.in) >= 28 /\ DeterministicOpeningFails)
                 => out.r.kind = "DecryptError"
           /\ (BLen(out.in) < 28 \/ DeterministicOpeningFails) => ~ IsOk(out.r)

\* C8 witness: a blob of 28 bytes or more with an altered tag was refused
\* with DecryptError.
C8_Witness ==
    /\ out.op = "decryptDeterministicText"
    /\ out.how = "tag"
    /\ BLen(out.in) >= 28
    /\ out.in /= stored.val
    /\ out.r.kind = "DecryptError"

\* Every encryptText returns a ciphertext, an iv of 12 bytes and a tag of
\* 16 bytes.
TextLayout ==
    out.op = "encryptText"
        => /\ IsOk(out.r)
           /\ BLen(out.r.val.iv) = 12
           /\ BLen(out.r.val.tag) = 16
           /\ BLen(out.r.val.ciphertext) = Len(Utf8Encode(out.pt))

\* The last call decrypted the stored (ciphertext, iv, tag), unaltered, on a
\* client holding the key that made it.
TextRoundTrip ==
    /\ out.op = "decryptText"
    /\ stored.op = "encryptText"
    /\ out.how = "none"
    /\ out.key = stored.key

\* C9 (as stated): encryptText(pt) returns (ciphertext, iv of 12 bytes, tag
\* of 16 bytes), and decryptText of the three on a client holding the same
\* key returns pt, for every string pt.
C9_TextRoundTripReturnsPlaintext ==
    /\ TextLayout
    /\ TextRoundTrip => out.r = Ok(stored.pt)

\* C9 (amended): encryptText(pt) returns (ciphertext, iv of 12 bytes, tag of
\* 16 bytes), and decryptText of the three on a client holding the same key
\* returns pt with every unpaired surrogate replaced by U+FFFD, which is pt
\* for every well-formed string.
C9_TextRoundTripReturnsWellFormed ==
    /\ TextLayout
    /\ TextRoundTrip
         => /\ out.r = Ok(ToWellFormed(stored.pt))
            /\ ToWellFormed(stored.pt) = stored.pt => out.r = Ok(stored.pt)

\* C9 witness: a string outside the BMP came back, on a client whose key
\* material is longer than 32 bytes.
C9_Witness ==
    /\ TextRoundTrip
    /\ stored.pt = <<55357, 56832>>
    /\ BLen(out.key) = 33
    /\ out.r = Ok(stored.pt)

\* The tag given to the last decryptText is a whole tag that does not verify
\* under the client's text key: ciphertext, iv or tag was altered, or the
\* key is another one.
TextTagMismatch ==
    /\ out.op = "decryptText"
    /\ stored.op = "encryptText"
    /\ BLen(out.in.tag) = 16
    /\ \/ out.in /= stored.val
       \/ Subarray(out.key, 0, 32) /= Subarray(stored.key, 0, 32)

\* C10: decryptText with Buffers whose tag does not verify under the
\* client's text key throws DecryptError.
C10_TagMismatchIsDecryptError ==
    TextTagMismatch => out.r.kind = "DecryptError"

\* What C10's case gives in the code: the error of the cipher itself.
C10_TagMismatchIsNativeError ==
    TextTagMismatch => out.r.kind = "Error"

\* C10 witness: an altered tag reached decryptText under the right key.
C10_Witness ==
    /\ TextTagMismatch
    /\ out.how = "tag"
    /\ out.key = stored.key

---------------------------------------------------------------------------
(* The vector operations (specifications SpecVec and SpecAuth)             *)
(*                                                                         *)
(* `stored` is the result of the last encryption, `out` the result of the  *)
(* last decryption of it.                                                  *)

\* The clients: one of 32 key bytes and approximation factor 1, one of 33
\* key bytes and approximation factor 2.
VecClients ==
    {Constructor(KeyMaterial("A", 32), Num(1), "", "").val,
     Constructor(KeyMaterial("B", 33), Num(2), "", "").val}

\* Vectors given to client.encryptVector and to encryptVector.
ClientVectors == {<<Fin(-1536)>>, <<Num(1), Num(-2)>>}
CryptoVectors == {<<Num(0)>>, <<Num(16384)>>}

\* The random words one noise vector of the given dimensionality may draw.
NoiseDraws(dimensionality) ==
    {[normal |-> n, point |-> p] :
        n \in [1..dimensionality -> NormalWords \X NormalWords], p \in Words}

\* The ways an encryption result may reach decryptVector.
VectorTampers ==
    {[what |-> "none", at |-> 0]}
        \cup {[what |-> "authHash", at |-> i] : i \in {0, 15, 31}}
        \cup {[what |-> "object", at |-> 0]}
        \cup {[what |-> "iv", at |-> i] : i \in {0, 11}}
        \cup {[what |-> "ciphertext", at |-> by] : by \in {1, Q}}

TamperVector(res, how) ==
    CASE how.what = "none" -> res
      [] how.what = "authHash" ->
            [res EXCEPT !.authHash = AuthHash(FlipByte(res.authHash.hashBytes, how.at)).val]
      [] how.what = "object" ->
            [res EXCEPT !.authHash = PlainObject(res.authHash.hashBytes)]
      [] how.what = "iv" -> [res EXCEPT !.iv = FlipByte(res.iv, how.at)]
      [] how.what = "ciphertext" ->
            [res EXCEPT !.ciphertext[1] = Add(res.ciphertext[1], Fin(how.at))]

InitVec ==
    /\ client \in VecClients
    /\ pending = <<>>
    /\ stored = NoValue
    /\ out = NoValue
    /\ shuf = NoValue
    /\ dcpe = NoDcpe
    /\ clientInstance = NoClient

ClientEncryptVector(plaintextVector, draw, draws) ==
    /\ stored' = [op |-> "client.encryptVector", v |-> plaintextVector,
                  r |-> EncryptVector(client, plaintextVector, RandomBytes(draw, 12), draws)]
    /\ out' = NoValue
    /\ UNCHANGED <<client, pending, shuf, dcpe, clientInstance>>

ClientDecryptVector ==
    /\ stored.op = "client.encryptVector"
    /\ IsOk(stored.r)
    /\ \E draws \in NoiseDraws(Len(stored.r.val.ciphertext)) :
          out' = [op |-> "client.decryptVector",
                  r |-> DecryptVector(client, stored.r.val.ciphertext,
                                      stored.r.val.metadata, draws)]
    /\ UNCHANGED <<client, pending, stored, shuf, dcpe, clientInstance>>

CryptoEncryptVector(vector, draw, draws) ==
    /\ stored' = [op |-> "encryptVector", v |-> vector,
                  r |-> encryptVector(client.vectorEncryptionKey, client.approximationFactor,
                                      vector, RandomBytes(draw, 12), draws)]
    /\ out' = NoValue
    /\ UNCHANGED <<client, pending, shuf, dcpe, clientInstance>>

CryptoDecryptVector(how) ==
    /\ stored.op = "encryptVector"
    /\ IsOk(stored.r)
    /\ LET in == TamperVector(stored.r.val, how)
       IN  \E draws \in NoiseDraws(Len(in.ciphertext)) :
              out' = [op |-> "decryptVector", how |-> how, in |-> in,
                      r |-> decryptVector(client.vectorEncryptionKey,
                                          client.approximationFactor, in, draws)]
    /\ UNCHANGED <<client, pending, stored, shuf, dcpe, clientInstance>>

\* The client's vector operations.
NextVec ==
    \/ \E v \in ClientVectors, d \in 1..MaxIvDraws :
          \E draws \in NoiseDraws(Len(v)) : ClientEncryptVector(v, d, draws)
    \/ ClientDecryptVector

SpecVec == InitVec /\ [][NextVec]_vars

\* encryptVector and decryptVector of dcpe/crypto, called with the client's
\* key and approximation factor on results that may have been altered
\* (specification SpecAuth).
NextAuth ==
    \/ \E v \in CryptoVectors, d \in 1..MaxIvDraws :
          \E draws \in NoiseDraws(Len(v)) : CryptoEncryptVector(v, d, draws)
    \/ \E how \in VectorTampers : CryptoDecryptVector(how)

SpecAuth == InitVec /\ [][NextAuth]_vars

---------------------------------------------------------------------------
(* Properties of the vector operations                                     *)

\* x and y are finite and differ by at most tolerance.
Within(x, y, tolerance) ==
    /\ IsFinite(x)
    /\ IsFinite(y)
    /\ Abs(x.v - y.v) <= tolerance.v

\* The last call decrypted what client.encryptVector returned for stored.v.
VectorRoundTrip ==
    /\ out.op = "client.decryptVector"
    /\ stored.op = "client.encryptVector"
    /\ IsOk(stored.r)

\* C1: for every outcome of the noise draws at encryption and at decryption,
\* decryptVector(encryptVector(v)) has the length of v and every coordinate
\* within a/4 of the coordinate of v.
C1_RoundTripWithinQuarter ==
    VectorRoundTrip
        => /\ IsOk(out.r)
           /\ Len(out.r.val) = Len(stored.v)
           /\ \A i \in 1..Len(stored.v) :
                 Within(out.r.val[i], stored.v[i], Div(client.approximationFactor, Num(4)))

\* C1 witness: a round trip that returned finite coordinates, one of them
\* further than a/4 from the coordinate of v.
C1_Witness ==
    /\ VectorRoundTrip
    /\ IsOk(out.r)
    /\ Len(out.r.val) = Len(stored.v)
    /\ \A i \in 1..Len(stored.v) : IsFinite(out.r.val[i])
    /\ \E i \in 1..Len(stored.v) :
          ~ Within(out.r.val[i], stored.v[i], Div(client.approximationFactor, Num(4)))

\* The last call gave decryptVector the ciphertext and iv encryptVector
\* returned, and as authHash something else than the AuthHash it returned.
AuthHashAltered ==
    /\ out.op = "decryptVector"
    /\ stored.op = "encryptVector"
    /\ out.in.ciphertext = stored.r.val.ciphertext
    /\ out.in.iv = stored.r.val.iv
    /\ \/ out.in.authHash.class /= "AuthHash"
       \/ out.in.authHash.hashBytes /= stored.r.val.authHash.hashBytes

\* C2: decryptVector with the key, approximation factor, ciphertext and iv
\* of an encryption and an authHash that differs from the one produced in a
\* byte, or is no AuthHash, throws DecryptError and returns no vector.
C2_AlteredAuthHashIsDecryptError ==
    AuthHashAltered => out.r.kind = "DecryptError"

\* C2 witness: the last byte of the authHash was altered and decryptVector
\* threw DecryptError.
C2_Witness ==
    /\ AuthHashAltered
    /\ out.how = [what |-> "authHash", at |-> 31]
    /\ out.r.kind = "DecryptError"

\* The last call gave decryptVector the authHash encryptVector returned
\* and another ciphertext vector or another iv.
CiphertextOrIvAltered ==
    /\ out.op = "decryptVector"
    /\ stored.op = "encryptVector"
    /\ out.in.authHash = stored.r.val.authHash
    /\ \/ out.in.ciphertext /= stored.r.val.ciphertext
       \/ out.in.iv /= stored.r.val.iv

\* C3: decryptVector with the key, approximation factor and authHash of an
\* encryption and a different ciphertext vector or a different iv throws
\* DecryptError.
C3_AlteredCiphertextIsDecryptError ==
    CiphertextOrIvAltered => out.r.kind = "DecryptError"

\* C3 witness: a ciphertext vector with another first coordinate was
\* decrypted to a vector.
C3_Witness ==
    /\ CiphertextOrIvAltered
    /\ out.in.ciphertext[1] /= stored.r.val.ciphertext[1]
    /\ IsOk(out.r)

---------------------------------------------------------------------------
(* shuffle and unshuffle (specification SpecShuf)                          *)
(*                                                                         *)
(* `shuf` is the last call of the two, with what it was given.             *)

\* The longest of the short arrays, and the length of the long one: past
\* 256 elements the counter byte of the key's generator has wrapped.
MaxLen == 3
LongLen == 258

ShuffleKeys == {KeyMaterial("A", 32), KeyMaterial("A", 33), KeyMaterial("B", 32)}

\* Arrays of the numbers 1 and 2 of every length up to MaxLen, and the
\* array 1, 2, ..., LongLen.
ShuffleArrays ==
    UNION {[1..n -> {Num(1), Num(2)}] : n \in 0..MaxLen}
        \cup {[i \in 1..LongLen |-> Fin(i)]}

InitShuf ==
    /\ client = BlankClient
    /\ pending = <<>>
    /\ stored = NoValue
    /\ out = NoValue
    /\ shuf = NoValue
    /\ dcpe = NoDcpe
    /\ clientInstance = NoClient

DoShuffle(key, inputArray) ==
    /\ shuf' = [op |-> "shuffle", key |-> key, x |-> inputArray,
                r |-> shuffle(key, inputArray)]
    /\ UNCHANGED <<client, pending, stored, out, dcpe, clientInstance>>

\* unshuffle under `key` of what the last shuffle returned.
DoUnshuffle(key) ==
    /\ shuf.op = "shuffle"
    /\ IsOk(shuf.r)
    /\ shuf' = [op |-> "unshuffle", key |-> key, x |-> shuf.x,
                shuffledWith |-> shuf.key, in |-> shuf.r.val,
                r |-> unshuffle(key, shuf.r.val)]
    /\ UNCHANGED <<client, pending, stored, out, dcpe, clientInstance>>

NextShuf ==
    \/ \E key \in ShuffleKeys \cup {Null}, x \in ShuffleArrays \cup {NotAnArray} :
          DoShuffle(key, x)
    \/ \E key \in ShuffleKeys \cup {Null} : DoUnshuffle(key)

SpecShuf == InitShuf /\ [][NextShuf]_vars

\* a holds the elements of b, each as often as b does.
IsPermutationOf(a, b) ==
    /\ Len(a) = Len(b)
    /\ \A i \in 1..Len(b) :
          Cardinality({j \in 1..Len(a) : a[j] = b[i]})
              = Cardinality({j \in 1..Len(b) : b[j] = b[i]})

\* C4: for every key k and array x, of more than 256 elements too,
\* shuffle(k, x) is a permutation of x of the same length and
\* unshuffle(k, shuffle(k, x)) is x, element for element.
C4_UnshuffleInvertsShuffle ==
    /\ (shuf.op = "shuffle" /\ Truthy(shuf.key) /\ IsArray(shuf.x))
          => (IsOk(shuf.r) /\ IsPermutationOf(shuf.r.val, shuf.x))
    /\ (shuf.op = "unshuffle" /\ shuf.key = shuf.shuffledWith)
          => shuf.r = Ok(shuf.x)

\* C4 witness: an array of more than 256 elements that shuffle had
\* reordered came back from unshuffle.
C4_Witness ==
    /\ shuf.op = "unshuffle"
    /\ shuf.key = shuf.shuffledWith
    /\ Len(shuf.x) > 256
    /\ shuf.in /= shuf.x
    /\ shuf.r = Ok(shuf.x)

---------------------------------------------------------------------------
(* The header codec (specification SpecHdr)                                *)
(*                                                                         *)
(* `stored` is the last value encoded (a header, or vector metadata), `out`*)
(* the result of the last decoding of bytes.                               *)

\* Key ids: 0, 1, 9999, 0x01020304, 2^31 and 2^32 - 1.
KeyIds ==
    {UInt32(0, 0), UInt32(0, 1), UInt32(0, 9999), UInt32(258, 772),
     UInt32(32768, 0), UInt32(65535, 65535)}

Headers ==
    {KeyIdHeader(k, EdekType[e], PayloadType[p]).val :
        k \in KeyIds, e \in 1..Len(EdekType), p \in 1..Len(PayloadType)}

\* The headers whose metadata is encoded.
MetadataHeaders ==
    {KeyIdHeader(UInt32(0, 1), "Standalone", "VectorMetadata").val,
     KeyIdHeader(UInt32(65535, 65535), "DataControlPlatform", "StandardEdek").val}

\* 12-byte ivs: the bytes 1 .. 12, and random ones.
HeaderIvs == {Lit(<<1, 2, 3, 4, 5, 6, 7, 8, 9, 10, 11, 12>>), RandomBytes(1, 12)}

\* 32-byte hashes: Buffer.alloc(32, 0xFF), and a digest.
HeaderHashes ==
    {AuthHash(Lit([i \in 1..32 |-> 255])).val,
     AuthHash(HmacSha256(KeyMaterial("A", 32), <<>>)).val}

\* The vector the client encrypts for its metadata.
HeaderVectors == {<<Fin(-1536)>>}

\* The ways header bytes may reach parseFromBytes: as written, without
\* their last byte, with one byte more, none of them, with another type
\* byte (byte 4), with another padding byte (byte 5), or with another
\* first byte.
HeaderTampers ==
    {[what |-> w, to |-> 0] : w \in {"none", "cut", "longer", "empty"}}
        \cup {[what |-> "type", to |-> t] : t \in {0, 2, 3, 18, 34, 35, 47, 48, 50, 242, 255}}
        \cup {[what |-> "padding", to |-> t] : t \in {1, 255}}
        \cup {[what |-> "first", to |-> t] : t \in {7, 200}}

SetByte(buf, i, to) ==
    Concat(Concat(Slice(buf, 0, i), Lit(<<to>>)), Slice(buf, i + 1, BLen(buf)))

TamperHeader(b, how) ==
    CASE how.what = "none"    -> b
      [] how.what = "cut"     -> Subarray(b, 0, 5)
      [] how.what = "longer"  -> Concat(b, Lit(<<0>>))
      [] how.what = "empty"   -> <<>>
      [] how.what = "type"    -> SetByte(b, 4, how.to)
      [] how.what = "padding" -> SetByte(b, 5, how.to)
      [] how.what = "first"   -> SetByte(b, 0, how.to)

\* header.writeToBytes()
DoWriteToBytes(h) ==
    /\ stored' = [op |-> "writeToBytes", h |-> h, r |-> Ok(WriteToBytes(h))]
    /\ out' = NoValue
    /\ UNCHANGED <<client, pending, shuf, dcpe, clientInstance>>

\* KeyIdHeader.parseFromBytes(bytes)
DoParseFromBytes(how) ==
    /\ stored.op = "writeToBytes"
    /\ LET in == TamperHeader(stored.r.val, how)
       IN  out' = [op |-> "parseFromBytes", how |-> how, in |-> in,
                   r |-> ParseFromBytes(in)]
    /\ UNCHANGED <<client, pending, stored, shuf, dcpe, clientInstance>>

\* encodeVectorMetadata(h, iv, authHash)
DoEncodeVectorMetadata(h, iv, authHash) ==
    /\ stored' = [op |-> "encodeVectorMetadata", h |-> h, iv |-> iv, authHash |-> authHash,
                  r |-> Ok(encodeVectorMetadata(h, iv, authHash))]
    /\ out' = NoValue
    /\ UNCHANGED <<client, pending, shuf, dcpe, clientInstance>>

\* decodeVersionPrefixedValue of the metadata encodeVectorMetadata or
\* client.encryptVector returned last.
DoDecodeVersionPrefixedValue ==
    /\ stored.op \in {"encodeVectorMetadata", "client.encryptVector"}
    /\ IsOk(stored.r)
    /\ LET in == IF stored.op = "encodeVectorMetadata" THEN stored.r.val
                 ELSE stored.r.val.metadata
       IN  out' = [op |-> "decodeVersionPrefixedValue", in |-> in,
                   r |-> decodeVersionPrefixedValue(in)]
    /\ UNCHANGED <<client, pending, stored, shuf, dcpe, clientInstance>>

NextHdr ==
    \/ \E h \in Headers : DoWriteToBytes(h)
    \/ \E how \in HeaderTampers : DoParseFromBytes(how)
    \/ \E h \in MetadataHeaders, iv \in HeaderIvs, authHash \in HeaderHashes :
          DoEncodeVectorMetadata(h, iv, authHash)
    \/ \E v \in HeaderVectors, d \in 1..MaxIvDraws :
          \E draws \in NoiseDraws(Len(v)) : ClientEncryptVector(v, d, draws)
    \/ DoDecodeVersionPrefixedValue

SpecHdr == InitVec /\ [][NextHdr]_vars

---------------------------------------------------------------------------
(* Properties of the header codec                                          *)

\* The bytes of a Buffer of literal bytes.
BytesOf(buf) == IF buf = <<>> THEN <<>> ELSE buf[1].lit

\* C15: for every header h with keyId in 0 .. 2^32 - 1 and any edek and
\* payload type, writeToBytes(h) is 6 bytes, byte 5 is 0, byte 4 holds the
\* edek index in its high nibble and the payload index in its low nibble,
\* and parseFromBytes of these bytes is a header with the keyId, edekType
\* and payloadType of h.
C15_HeaderRoundTrip ==
    /\ stored.op = "writeToBytes"
          => LET b == BytesOf(stored.r.val)
             IN  /\ BLen(stored.r.val) = 6
                 /\ Len(b) = 6
                 /\ b[6] = 0
                 /\ b[5] \div 16 = IndexOf(EdekType, stored.h.edekType)
                 /\ b[5] % 16 = IndexOf(PayloadType, stored.h.payloadType)
    /\ (out.op = "parseFromBytes" /\ out.how.what = "none")
          => /\ IsOk(out.r)
             /\ out.r.val.keyId = stored.h.keyId
             /\ out.r.val.edekType = stored.h.edekType
             /\ out.r.val.payloadType = stored.h.payloadType

\* C15 witness: the header (2^32 - 1, DataControlPlatform, VectorMetadata)
\* was written and parsed back.
C15_Witness ==
    /\ out.op = "parseFromBytes"
    /\ out.how.what = "none"
    /\ stored.h = [keyId |-> UInt32(65535, 65535), edekType |-> "DataControlPlatform",
                   payloadType |-> "VectorMetadata"]
    /\ stored.r.val = Lit(<<255, 255, 255, 255, 33, 0>>)
    /\ out.r = Ok(stored.h)

\* b is 6 bytes, its byte 5 is 0 and both nibbles of its byte 4 are at
\* most 2.
WellFormedHeaderBytes(buf) ==
    /\ BLen(buf) = 6
    /\ BytesOf(buf)[6] = 0
    /\ BytesOf(buf)[5] \div 16 <= 2
    /\ BytesOf(buf)[5] % 16 <= 2

\* C16: parseFromBytes(b) returns a header exactly when b is 6 bytes with
\* byte 5 zero and both nibbles of byte 4 at most 2, and throws
\* InvalidInputError for every other byte string.
C16_ParseAcceptsExactlyWellFormed ==
    out.op = "parseFromBytes"
        => IF WellFormedHeaderBytes(out.in) THEN IsOk(out.r)
           ELSE out.r.kind = "InvalidInputError"

\* C16 witness: 6 bytes with padding 0 and an edek index of 2 but a payload
\* index of 3 were rejected with InvalidInputError.
C16_Witness ==
    /\ out.op = "parseFromBytes"
    /\ out.how = [what |-> "type", to |-> 35]
    /\ BLen(out.in) = 6
    /\ out.r.kind = "InvalidInputError"

\* C17: encodeVectorMetadata(h, iv, ah) of a 12-byte iv and a 32-byte hash
\* is 50 bytes, header(6) || iv(12) || hash(32); decodeVersionPrefixedValue
\* of it returns a header equal to h and the remaining bytes iv || ah.bytes;
\* and the metadata client.encryptVector returns is 50 bytes of this form.
C17_MetadataRoundTrip ==
    /\ stored.op = "encodeVectorMetadata"
          => /\ BLen(stored.r.val) = 50
             /\ Subarray(stored.r.val, 0, 6) = WriteToBytes(stored.h)
             /\ Subarray(stored.r.val, 6, 18) = stored.iv
             /\ Subarray(stored.r.val, 18, 50) = stored.authHash.hashBytes
    /\ (stored.op = "encodeVectorMetadata" /\ out.op = "decodeVersionPrefixedValue")
          => /\ IsOk(out.r)
             /\ out.r.val.keyIdHeader = stored.h
             /\ out.r.val.remainingBytes = Concat(stored.iv, stored.authHash.hashBytes)
    /\ (stored.op = "client.encryptVector" /\ IsOk(stored.r))
          => LET metadata == stored.r.val.metadata
             IN  /\ BLen(metadata) = 50
                 /\ IsOk(ParseFromBytes(Subarray(metadata, 0, 6)))
                 /\ \E d \in 1..MaxIvDraws :
                       Subarray(metadata, 6, 18) = RandomBytes(d, 12)
                 /\ IsOk(AuthHash(Subarray(metadata, 18, 50)))

\* C17 witness: the metadata of (header 1, the iv 1 .. 12, the hash of 32
\* bytes 0xFF) was encoded and decoded.
C17_Witness ==
    /\ stored.op = "encodeVectorMetadata"
    /\ stored.h.keyId = UInt32(0, 1)
    /\ stored.iv = Lit(<<1, 2, 3, 4, 5, 6, 7, 8, 9, 10, 11, 12>>)
    /\ stored.authHash.hashBytes = Lit([i \in 1..32 |-> 255])
    /\ out.op = "decodeVersionPrefixedValue"
    /\ IsOk(out.r)
    /\ BLen(out.r.val.remainingBytes) = 44

---------------------------------------------------------------------------
(* encryptVector and decryptVector at their edges (specification SpecEdge) *)
(*                                                                         *)
(* `stored` is the last call of encryptVector, with what it was given, and *)
(* `out` the last call of decryptVector on its result.                     *)

\* Vector keys of scaling factor 0, 1 and 2.
EdgeKeys ==
    {VectorEncryptionKey(f, KeyMaterial("A", 32)).val : f \in {Num(0), Num(1), Num(2)}}

\* Approximation factors: 1, and NaN, which generateNoiseVector rejects.
EdgeFactors == {Num(1), NaN}

\* Vectors: none, [1], and the largest finite number.
EdgeVectors == {<<>>, <<Num(1)>>, <<Fin(MaxValue)>>}

\* The ways the result may reach decryptVector.
EdgeTampers ==
    {[what |-> "none", at |-> 0], [what |-> "authHash", at |-> 0]}

EdgeEncryptVector(key, approximationFactor, vector, draw, draws) ==
    /\ stored' = [op |-> "encryptVector", key |-> key, a |-> approximationFactor,
                  v |-> vector, draws |-> draws,
                  r |-> encryptVector(key, approximationFactor, vector,
                                      RandomBytes(draw, 12), draws)]
    /\ out' = NoValue
    /\ UNCHANGED <<client, pending, shuf, dcpe, clientInstance>>

EdgeDecryptVector(key, how) ==
    /\ stored.op = "encryptVector"
    /\ IsOk(stored.r)
    /\ LET in == TamperVector(stored.r.val, how)
       IN  \E draws \in NoiseDraws(Len(in.ciphertext)) :
              out' = [op |-> "decryptVector", key |-> key, how |-> how, in |-> in,
                      r |-> decryptVector(key, stored.a, in, draws)]
    /\ UNCHANGED <<client, pending, stored, shuf, dcpe, clientInstance>>

NextEdge ==
    \/ \E key \in EdgeKeys, a \in EdgeFactors, v \in EdgeVectors, d \in 1..MaxIvDraws :
          \E draws \in NoiseDraws(Len(v)) : EdgeEncryptVector(key, a, v, d, draws)
    \/ \E key \in EdgeKeys, how \in EdgeTampers : EdgeDecryptVector(key, how)

SpecEdge == InitVec /\ [][NextEdge]_vars

---------------------------------------------------------------------------
(* Properties of encryptVector and decryptVector at their edges            *)

\* The last call of encryptVector passed its checks of the key and got a
\* noise vector, and some scaled coordinate plus its noise is not finite.
CiphertextNotFinite ==
    /\ stored.op = "encryptVector"
    /\ stored.key.scalingFactor /= Fin(0)
    /\ LET noise == generateNoiseVector(stored.key, RandomBytes(1, 12), stored.a,
                                        Len(stored.v), stored.draws)
       IN  /\ IsOk(noise)
           /\ \E i \in 1..Len(stored.v) :
                 ~ IsFinite(Add(Mul(stored.key.scalingFactor, stored.v[i]), noise.val[i]))

\* C12: whenever a scaled coordinate plus its noise is not finite,
\* encryptVector throws OverflowError and returns nothing.
C12_NonFiniteIsOverflowError ==
    CiphertextNotFinite => stored.r.kind = "OverflowError"

\* C12 witness: encryptVector of the largest finite number under scaling
\* factor 2 threw, and what it threw is a plain Error.
C12_Witness ==
    /\ CiphertextNotFinite
    /\ stored.v = <<Fin(MaxValue)>>
    /\ stored.key.scalingFactor = Num(2)
    /\ stored.r.kind = "Error"

\* C13: with a key of scaling factor 0, encryptVector throws InvalidKeyError
\* for every vector, approximation factor and draw, and decryptVector throws
\* InvalidKeyError for every encrypted result, whether its authentication
\* hash matches or not.
C13_ZeroScalingFactorIsInvalidKey ==
    /\ (stored.op = "encryptVector" /\ stored.key.scalingFactor = Fin(0))
          => stored.r.kind = "InvalidKeyError"
    /\ (out.op = "decryptVector" /\ out.key.scalingFactor = Fin(0))
          => out.r.kind = "InvalidKeyError"

\* C13 witness: decryptVector under a key of scaling factor 0 threw
\* InvalidKeyError for a result whose authentication hash had been altered.
C13_Witness ==
    /\ out.op = "decryptVector"
    /\ out.key.scalingFactor = Fin(0)
    /\ out.how.what = "authHash"
    /\ out.r.kind = "InvalidKeyError"

\* The last call of encryptVector got a vector of length 0, a key of
\* scaling factor other than 0 and a positive approximation factor.
EmptyVectorEncrypted ==
    /\ stored.op = "encryptVector"
    /\ stored.v = <<>>
    /\ stored.key.scalingFactor /= Fin(0)
    /\ IsPositive(stored.a)

\* C14: encryptVector of a vector of length 0 succeeds with a ciphertext of
\* length 0, and decryptVector of that result returns a vector of length 0.
C14_EmptyVectorIsAccepted ==
    /\ EmptyVectorEncrypted
          => (IsOk(stored.r) /\ stored.r.val.ciphertext = <<>>)
    /\ (EmptyVectorEncrypted /\ out.op = "decryptVector" /\ out.how.what = "none"
            /\ out.key = stored.key)
          => out.r = Ok(<<>>)

\* C14 witness: encryptVector of a vector of length 0 threw a plain Error.
C14_Witness ==
    /\ EmptyVectorEncrypted
    /\ stored.r.kind = "Error"

---------------------------------------------------------------------------
(* Construction and key rotation (specification SpecKeys)                  *)
(*                                                                         *)
(* `client` is the client the caller holds, `pending` the rotateKey calls  *)
(* on it that wait for the key provider, `out` the last call that returned *)
(* or threw.  A new client replaces the one the caller holds.              *)

\* What a caller may pass as key material, or a provider resolve to: 32
\* bytes of two secrets, 31 bytes, null, and a value that is no Buffer.
KeyArgs == {KeyMaterial("A", 32), KeyMaterial("B", 32), KeyMaterial("A", 31), Null, NotABuffer}

\* What `await keyProvider.getKey(id)` may settle with.
ProviderOutcomes ==
    {Ok(m) : m \in {KeyMaterial("A", 32), KeyMaterial("B", 32), KeyMaterial("A", 31),
                    NotABuffer}}
        \cup {Throw("Error")}

KeyIdArgs == {"", "k1", "k2"}

\* new RagEncryptionClient(encryptionKey, 1.0, keyProvider, keyId)
DoConstruct(encryptionKey, keyProvider, keyId) ==
    /\ pending = <<>>
    /\ LET r == Constructor(encryptionKey, Num(1), keyProvider, keyId)
       IN  /\ client' = IF IsOk(r) THEN r.val ELSE client
           /\ out' = [op |-> "constructor", material |-> encryptionKey,
                      r |-> IF IsOk(r) THEN Ok(<<>>) ELSE r]
    /\ UNCHANGED <<pending, stored, shuf, dcpe, clientInstance>>

\* await RagEncryptionClient.create(encryptionKey, 1.0, keyProvider, keyId)
DoCreate(encryptionKey, keyProvider, keyId, got) ==
    /\ pending = <<>>
    /\ LET r == Create(encryptionKey, Num(1), keyProvider, keyId, got)
       IN  /\ client' = IF IsOk(r) THEN r.val ELSE client
           /\ out' = [op |-> "create", material |-> encryptionKey,
                      r |-> IF IsOk(r) THEN Ok(<<>>) ELSE r]
    /\ UNCHANGED <<pending, stored, shuf, dcpe, clientInstance>>

\* The provider settles the getKey call of the i-th suspended rotateKey
\* with `got`, and that rotateKey runs to its end.
ProviderSettles(i, got) ==
    /\ i \in 1..Len(pending)
    /\ LET res == RotateKeyResume(client, pending[i].newKeyId, got)
       IN  /\ client' = res.c
           /\ out' = [op |-> "rotateKey", newKeyId |-> pending[i].newKeyId,
                      before |-> KeyTriple(client), beforeId |-> client.keyId,
                      beforeFactor |-> client.approximationFactor, r |-> res.r]
    /\ pending' = SubSeq(pending, 1, i - 1) \o SubSeq(pending, i + 1, Len(pending))
    /\ UNCHANGED <<stored, shuf, dcpe, clientInstance>>

NextKeys ==
    \/ \E m \in KeyArgs, kp \in {NoProvider, Provider}, id \in {"", "k1"} :
          DoConstruct(m, kp, id)
    \/ \E m \in KeyArgs, kp \in {NoProvider, Provider, ProviderWithoutGetKey},
          id \in {"", "k1"}, got \in ProviderOutcomes : DoCreate(m, kp, id, got)
    \/ \E m \in KeyArgs, id \in KeyIdArgs : RotateKey(m, id)
    \/ \E i \in 1..MaxPending, got \in ProviderOutcomes : ProviderSettles(i, got)
    \/ DoEncryptDeterministicText(<<65>>)

SpecKeys == Init /\ [][NextKeys]_vars

---------------------------------------------------------------------------
(* Properties of construction and key rotation                             *)

\* C18: after every sequence of constructions and rotateKey calls, with
\* material or through the provider, the vector key, the text key and the
\* deterministic key of the client each hold at least 32 bytes.
C18_KeysHoldAtLeast32Bytes ==
    /\ BLen(client.vectorEncryptionKey.key) >= 32
    /\ BLen(client.textEncryptionKey) >= 32
    /\ BLen(client.deterministicEncryptionKey) >= 32

\* C18 witness: a rotateKey through the provider succeeded and left the
\* client with keys of 31 bytes.
C18_Witness ==
    /\ out.op = "rotateKey"
    /\ IsOk(out.r)
    /\ client.keyProvider = Provider
    /\ BLen(client.textEncryptionKey) = 31
    /\ BLen(client.vectorEncryptionKey.key) = 31
    /\ BLen(client.deterministicEncryptionKey) = 31

\* C19: wherever other code can run on the client, also while rotateKey
\* calls wait for the provider, the vector key, the text key and the
\* deterministic key hold the same key bytes.
C19_KeyTripleOfOneMaterial ==
    /\ client.vectorEncryptionKey.key = client.textEncryptionKey
    /\ client.textEncryptionKey = client.deterministicEncryptionKey

\* C19 witness: one of two overlapping rotateKey calls has replaced the
\* keys while the other still waits for the provider.
C19_Witness ==
    /\ Len(pending) = 1
    /\ out.op = "rotateKey"
    /\ IsOk(out.r)
    /\ client.textEncryptionKey /= out.before.text
    /\ client.vectorEncryptionKey.key = client.textEncryptionKey
    /\ client.deterministicEncryptionKey = client.textEncryptionKey
    /\ client.keyId \in {"k1", "k2"}

\* The last call was a rotateKey that completed and replaced the keys.
RotationCompleted ==
    /\ out.op = "rotateKey"
    /\ IsOk(out.r)
    /\ KeyTriple(client) /= out.before

\* C20: after rotateKey completes, no field of the client holds the
\* vector, text or deterministic key that was current before the rotation.
C20_PreviousKeysNotRetained ==
    RotationCompleted
        => /\ client.oldVectorEncryptionKey /= out.before.vector
           /\ client.oldTextEncryptionKey /= out.before.text
           /\ client.oldDeterministicEncryptionKey /= out.before.deterministic

\* C20 witness: after a completed rotateKey the fields _oldVectorEncryptionKey,
\* _oldTextEncryptionKey and _oldDeterministicEncryptionKey hold the keys
\* the rotation replaced.
C20_Witness ==
    /\ RotationCompleted
    /\ client.oldVectorEncryptionKey = out.before.vector
    /\ client.oldTextEncryptionKey = out.before.text
    /\ client.oldDeterministicEncryptionKey = out.before.deterministic

---------------------------------------------------------------------------
(* The errors of the client's operations (specification SpecErr)           *)
(*                                                                         *)
(* `stored` is the result of the last encryption, `out` the result of the  *)
(* last decryption.                                                        *)

\* Clients of approximation factor 1, 0, -1 and NaN: the constructor
\* accepts every number.
ErrClients ==
    {Constructor(KeyMaterial("A", 32), f, NoProvider, "").val :
        f \in {Num(1), Num(0), Num(-1), NaN}}

\* Vectors given to client.encryptVector: [1], [], the largest finite
\* number, and a value that is no array.
ErrVectors == {<<Num(1)>>, <<>>, <<Fin(MaxValue)>>, NotAnArray}

\* The ways metadata may reach client.decryptVector: as returned, cut to 49
\* or to 5 bytes, with one byte more, with another padding byte, or as a
\* value that is no Buffer.
MetadataTampers == {"none", "cut-49", "cut-5", "longer", "padding", "not-a-buffer"}

TamperMetadata(metadata, how) ==
    CASE how = "none"         -> metadata
      [] how = "cut-49"       -> Subarray(metadata, 0, 49)
      [] how = "cut-5"        -> Subarray(metadata, 0, 5)
      [] how = "longer"       -> Concat(metadata, Lit(<<0>>))
      [] how = "padding"      -> SetByte(metadata, 5, 1)
      [] how = "not-a-buffer" -> NotABuffer

InitErr ==
    /\ client \in ErrClients
    /\ pending = <<>>
    /\ stored = NoValue
    /\ out = NoValue
    /\ shuf = NoValue
    /\ dcpe = NoDcpe
    /\ clientInstance = NoClient

\* client.decryptVector(ciphertext, metadata) on what client.encryptVector
\* returned, the metadata altered or not.
ClientDecryptVectorOf(how) ==
    /\ stored.op = "client.encryptVector"
    /\ IsOk(stored.r)
    /\ LET metadata == TamperMetadata(stored.r.val.metadata, how)
       IN  \E draws \in NoiseDraws(Len(stored.r.val.ciphertext)) :
              out' = [op |-> "client.decryptVector", how |-> how,
                      r |-> DecryptVector(client, stored.r.val.ciphertext, metadata, draws)]
    /\ UNCHANGED <<client, pending, stored, shuf, dcpe, clientInstance>>

NextErr ==
    \/ \E v \in ErrVectors, d \in 1..MaxIvDraws :
          \E draws \in NoiseDraws(IF IsArray(v) THEN Len(v) ELSE 1) :
             ClientEncryptVector(v, d, draws)
    \/ \E how \in MetadataTampers : ClientDecryptVectorOf(how)
    \/ \E pt \in {<<65>>, NotAString}, d \in 1..MaxIvDraws : DoEncryptText(pt, d)
    \/ \E pt \in {<<65>>, NotAString} : DoEncryptDeterministicText(pt)
    \/ Store
    \/ \E how \in TextTampers : DoDecryptText(how)
    \/ \E how \in BlobTampers : DoDecryptDeterministicText(how)

SpecErr == InitErr /\ [][NextErr]_vars

---------------------------------------------------------------------------
(* Properties of the errors                                                *)

\* The error classes of the taxonomy, by the kinds of the specification:
\* InvalidConfiguration, InvalidKey, InvalidInput, Encrypt, Decrypt,
\* VectorEncrypt, VectorDecrypt, Overflow and Serialization.
Taxonomy ==
    {"InvalidConfigurationError", "InvalidKeyError", "InvalidInputError", "EncryptError",
     "DecryptError", "VectorEncryptError", "VectorDecryptError", "OverflowError",
     "ProtobufError", "SerdeJsonError"}

\* What the call recorded in `call` returned or threw is a value or an
\* error of the taxonomy.
ValueOrTaxonomy(call) ==
    ("r" \in DOMAIN call) => (IsOk(call.r) \/ call.r.kind \in Taxonomy)

\* C11: every failure of a public operation of the client, for every
\* input, also metadata of another length than 50 bytes and an
\* approximation factor that is NaN or not positive, is an error of the
\* taxonomy, never a plain Error, a TypeError or an error of the cipher.
C11_EveryFailureIsOfTheTaxonomy ==
    ValueOrTaxonomy(out) /\ ValueOrTaxonomy(stored)

\* C11 witness: client.decryptVector with metadata of 49 bytes threw a
\* plain Error.
C11_Witness ==
    /\ out.op = "client.decryptVector"
    /\ out.how = "cut-49"
    /\ out.r.kind = "Error"

---------------------------------------------------------------------------
(* Key rotation and the deterministic blobs (specification Spec)           *)

\* The last call was decryptDeterministicText on the stored blob as stored.
StoredBlobOpened ==
    /\ out.op = "decryptDeterministicText"
    /\ stored.op = "encryptDeterministicText"
    /\ out.how = "none"

\* The last call encrypted the plaintext of the stored blob again, under
\* other key material than the stored blob's.
SamePlaintextUnderOtherMaterial ==
    /\ out.op = "encryptDeterministicText"
    /\ stored.op = "encryptDeterministicText"
    /\ out.pt = stored.pt
    /\ out.key /= stored.key

\* C21 (as stated): whatever rotations came before, decryptDeterministicText
\* succeeds on a blob exactly when the blob was made under key material
\* equal to the material now installed, and then returns the plaintext; the
\* same plaintext gives different blobs under different material.
C21_OpensExactlyUnderEqualMaterial ==
    /\ StoredBlobOpened
         => /\ IsOk(out.r) <=> (out.key = stored.key)
            /\ out.key = stored.key => out.r = Ok(stored.pt)
    /\ SamePlaintextUnderOtherMaterial
         => (IsOk(out.r) /\ out.r.val /= stored.val)

\* C21 (amended): as stated, the plaintext coming back with every unpaired
\* surrogate replaced by U+FFFD (so as it was when it is well formed).
C21_OpensExactlyUnderEqualMaterialWellFormed ==
    /\ StoredBlobOpened
         => /\ IsOk(out.r) <=> (out.key = stored.key)
            /\ out.key /= stored.key => out.r.kind = "DecryptError"
            /\ out.key = stored.key => out.r = Ok(ToWellFormed(stored.pt))
    /\ SamePlaintextUnderOtherMaterial
         => (IsOk(out.r) /\ out.r.val /= stored.val)

\* C21 witness: a blob made before a successful rotation to other material
\* (here to one more byte of the same secret) was refused after it.
C21_Witness ==
    /\ StoredBlobOpened
    /\ stored.key = KeyMaterial("A", 32)
    /\ client.oldDeterministicEncryptionKey = stored.key
    /\ client.deterministicEncryptionKey = KeyMaterial("A", 33)
    /\ out.key = client.deterministicEncryptionKey
    /\ out.r.kind = "DecryptError"

---------------------------------------------------------------------------
(* hkdf as a function (specification SpecHkdf)                             *)

\* The length of a SHA-256 digest.
HashLen == 32

\* The most whole blocks asked for.
MaxBlocks == 3

\* The lengths asked for: none, one byte, around one block, around two
\* blocks and around MaxBlocks blocks.
HkdfLengths ==
    {0, 1, HashLen - 1, HashLen, HashLen + 1, 2 * HashLen, 2 * HashLen + 1,
     MaxBlocks * HashLen - 1, MaxBlocks * HashLen, MaxBlocks * HashLen + 1}

HkdfIkms == {KeyMaterial("A", 32), KeyMaterial("A", 33)}
HkdfSalts == {StrBytes("DCPE-Deterministic", 18), Undefined}
HkdfInfos == {StrBytes("deterministic_encryption_key", 28), Undefined}

\* hkdf(ikm, length, salt, info); the call before it is kept for comparison.
DoHkdf(ikm, length, salt, info) ==
    /\ out' = [op |-> "hkdf", ikm |-> ikm, length |-> length,
               salt |-> salt, info |-> info,
               r |-> hkdf(ikm, length, salt, info)]
    /\ stored' = out
    /\ UNCHANGED <<client, pending, shuf, dcpe, clientInstance>>

NextHkdf ==
    \E ikm \in HkdfIkms, length \in HkdfLengths,
       salt \in HkdfSalts, info \in HkdfInfos : DoHkdf(ikm, length, salt, info)

SpecHkdf == InitShuf /\ [][NextHkdf]_vars

\* The salt and the info a call uses: the empty Buffer when not given.
GivenOrEmpty(b) == IF b = Undefined THEN <<>> ELSE b

\* okm is the first L bytes of T(1) || T(2) || ..., where T(0) is empty and
\* T(i) = HMAC(prk, T(i-1) || info || byte(i)): block i of okm (the last
\* one cut to what remains of L) is the start of the HMAC over block i-1.
IsHkdfOutput(okm, prk, info, L) ==
    /\ BLen(okm) = L
    /\ \A i \in 1..((L + HashLen - 1) \div HashLen) :
          LET previous == IF i = 1 THEN <<>>
                          ELSE Slice(okm, (i - 2) * HashLen, (i - 1) * HashLen)
              T == HmacSha256(prk, Concat(Concat(previous, info), Lit(<<i % 256>>)))
          IN  Slice(okm, (i - 1) * HashLen, Min(i * HashLen, L))
                  = Slice(T, 0, Min(HashLen, L - (i - 1) * HashLen))

\* C22: hkdf(ikm, L, salt, info) returns for every L >= 0 exactly L bytes,
\* the first L bytes of T(1) || T(2) || ... with T(i) = HMAC(prk, T(i-1) ||
\* info || byte(i)) and prk = HMAC(salt, ikm); equal inputs give equal
\* results, and the result for L1 is a prefix of the result for L2 >= L1.
C22_HkdfIsRfc5869Prefix ==
    out.op = "hkdf"
        => /\ IsOk(out.r)
           /\ IsHkdfOutput(out.r.val,
                           HmacSha256(GivenOrEmpty(out.salt), out.ikm),
                           GivenOrEmpty(out.info), out.length)
           /\ (/\ stored.op = "hkdf"
               /\ stored.ikm = out.ikm
               /\ GivenOrEmpty(stored.salt) = GivenOrEmpty(out.salt)
               /\ GivenOrEmpty(stored.info) = GivenOrEmpty(out.info)
               /\ stored.length <= out.length)
                 => stored.r.val = Slice(out.r.val, 0, stored.length)

\* C22 witness: after a call for one byte more than a block, a call with
\* the same inputs for one byte more than MaxBlocks blocks.
C22_Witness ==
    /\ out.op = "hkdf"
    /\ stored.op = "hkdf"
    /\ stored.ikm = out.ikm
    /\ stored.salt = out.salt
    /\ stored.info = out.info
    /\ stored.length = HashLen + 1
    /\ out.length = MaxBlocks * HashLen + 1
    /\ BLen(out.r.val) = out.length

---------------------------------------------------------------------------
(* key_provider: LocalKeyProvider; dcpe.js: DCPE; the module-level helpers *)
(* of rag_encryption (dist/index.esm.js)                                   *)

\* The values a holder of keys may hold: null, a Buffer, a
\* VectorEncryptionKey instance (as VectorEncryptionKey(..).val), a plain
\* object with or without the properties scalingFactor and key.
JsNull == [js |-> "null"]
BufferValue(b) == [buffer |-> b]
KeysObject(scalingFactor, key) ==
    [object |-> "plain", scalingFactor |-> scalingFactor, key |-> key]
IsBufferValue(v) == "buffer" \in DOMAIN v
IsPlainObject(v) == "object" \in DOMAIN v
IsVectorEncryptionKey(v) == ~ IsPlainObject(v) /\ "scalingFactor" \in DOMAIN v
\* A number that is truthy: not 0, not NaN.
TruthyNumber(x) == IsNumber(x) /\ x /= Fin(0) /\ x /= NaN

\* The key ids of the local store; "" is the omitted keyId.
LocalKeyIds == {"default", "k1"}

\* new LocalKeyProvider(config)
LocalKeyProvider == [keys |-> [id \in LocalKeyIds |-> JsNull], currentKey |-> JsNull]

\* LocalKeyProvider.getKey(keyId): what the promise resolves to, or the
\* `Key not found` Error it rejects with.
LocalGetKey(p, keyId) ==
    LET found == p.keys[IF keyId = "" THEN "default" ELSE keyId]
        key == IF found /= JsNull THEN found ELSE p.currentKey
    IN  IF key = JsNull THEN Throw("Error") ELSE Ok(key)

\* LocalKeyProvider.storeKey(keyMaterial, keyId): the provider afterwards.
LocalStoreKey(p, keyMaterial, keyId) ==
    [p EXCEPT !.keys[IF keyId = "" THEN "default" ELSE keyId] = keyMaterial]

\* LocalKeyProvider.setKeys(encryptionKeys): the provider afterwards, or the
\* error thrown.
LocalSetKeys(p, encryptionKeys) ==
    IF IsBufferValue(encryptionKeys) \/ IsVectorEncryptionKey(encryptionKeys)
    THEN Ok([p EXCEPT !.currentKey = encryptionKeys])
    ELSE IF ~ IsPlainObject(encryptionKeys) THEN Throw("TypeError")
    ELSE IF TruthyNumber(encryptionKeys.scalingFactor) /\ Truthy(encryptionKeys.key)
    THEN LET vk == VectorEncryptionKey(encryptionKeys.scalingFactor, encryptionKeys.key)
         IN  IF ~ IsOk(vk) THEN vk ELSE Ok([p EXCEPT !.currentKey = vk.val])
    ELSE IF Truthy(encryptionKeys.key)
    THEN Ok([p EXCEPT !.currentKey = BufferValue(encryptionKeys.key)])
    ELSE Ok([p EXCEPT !.currentKey = encryptionKeys])

\* LocalKeyProvider.getKeys()
LocalGetKeys(p) ==
    IF p.currentKey = JsNull THEN Throw("Error") ELSE Ok(p.currentKey)

\* new DCPE(): the local key provider, no vectorConfig.
NewDcpe == [keyProvider |-> LocalKeyProvider]

\* keys.generateEncryptionKeys(): 32 random bytes.
generateEncryptionKeys(draw) == BufferValue(RandomBytes(draw, 32))

\* DCPE.encryptVector(vector): the ciphertext alone, or the error thrown.
\* crypto.encryptVector reads key.scalingFactor.getFactor() first, a
\* TypeError when the keys have no scalingFactor.
DcpeEncryptVector(d, vector, iv, draws) ==
    LET keys == LocalGetKeys(d.keyProvider)
    IN  IF ~ IsOk(keys) THEN keys
        ELSE IF IsBufferValue(keys.val) THEN Throw("TypeError")
        ELSE IF IsPlainObject(keys.val) THEN Throw("TypeError")
        ELSE LET result == encryptVector(keys.val, Num(1), vector, iv, draws)
             IN  IF ~ IsOk(result) THEN result ELSE Ok(result.val.ciphertext)

\* What `new RagEncryptionClient(keys)` is given: the Buffer, or a value
\* that is not one.
ConstructorArgument(keys) ==
    IF IsBufferValue(keys) THEN keys.buffer ELSE NotABuffer

\* _getClientInstance(keys): [instance |-> _clientInstance afterwards,
\* r |-> Ok(the client returned) or the error the constructor threw].
GetClientInstance(instance, keys) ==
    IF instance /= NoClient THEN [instance |-> instance, r |-> Ok(instance)]
    ELSE LET made == Constructor(ConstructorArgument(keys), Num(1), "", "")
         IN  IF ~ IsOk(made) THEN [instance |-> instance, r |-> made]
             ELSE [instance |-> made.val, r |-> made]

\* A text operation of DCPE: getKeys, then the module-level helper with
\* the client of _getClientInstance.  Apply(c) is the client's method.
\* [instance |-> _clientInstance afterwards, r |-> the outcome].
DcpeTextOperation(d, instance, Apply(_)) ==
    LET keys == LocalGetKeys(d.keyProvider)
    IN  IF ~ IsOk(keys) THEN [instance |-> instance, r |-> keys]
        ELSE LET got == GetClientInstance(instance, keys.val)
             IN  IF ~ IsOk(got.r) THEN got
                 ELSE [instance |-> got.instance, r |-> Apply(got.r.val)]

\* DCPE.encryptText(text)
DcpeEncryptText(d, instance, text, iv) ==
    LET Apply(c) == EncryptText(c, text, iv)
    IN  DcpeTextOperation(d, instance, Apply)

\* DCPE.decryptText(encryptedText)
DcpeDecryptText(d, instance, encryptedText) ==
    LET Apply(c) == DecryptText(c, encryptedText.ciphertext, encryptedText.iv,
                                encryptedText.tag)
    IN  DcpeTextOperation(d, instance, Apply)

\* DCPE.encryptMetadata(value)
DcpeEncryptMetadata(d, instance, value) ==
    LET Apply(c) == EncryptDeterministicText(c, value)
    IN  DcpeTextOperation(d, instance, Apply)

\* DCPE.decryptMetadata(encryptedValue)
DcpeDecryptMetadata(d, instance, encryptedValue) ==
    LET Apply(c) == DecryptDeterministicText(c, encryptedValue)
    IN  DcpeTextOperation(d, instance, Apply)

---------------------------------------------------------------------------
(* The DCPE facade (specification SpecDcpe)                                *)

\* The DCPE instances of the process.
DcpeNames == {"dcpe1", "dcpe2"}

\* What a caller may pass to setKeys besides keys it generated: a Buffer
\* loaded from storage, a VectorEncryptionKey, a serialized one, an empty
\* object, null.
SetKeysArgs ==
    {BufferValue(KeyMaterial("A", 32)),
     VectorEncryptionKey(Num(1), KeyMaterial("B", 32)).val,
     KeysObject(Num(2), KeyMaterial("B", 32)),
     KeysObject(NotANumber, Undefined),
     JsNull}

\* The keys the caller holds from its last generateKeys call, if that was
\* the last call.
GeneratedKeys == IF out.op = "generateKeys" THEN {out.r.val} ELSE {}

\* The keys under which the values given to the decrypting calls were made.
BlobKeys == {KeyMaterial("A", 32), RandomBytes(1, 32)}

DcpeTexts == {<<65>>}

InitDcpe ==
    /\ client = BlankClient
    /\ pending = <<>>
    /\ stored = NoValue
    /\ out = NoValue
    /\ shuf = NoValue
    /\ dcpe = [n \in DcpeNames |-> NewDcpe]
    /\ clientInstance = NoClient

\* keys = await dcpe.generateKeys()
DoGenerateKeys(n, draw) ==
    /\ out' = [op |-> "generateKeys", n |-> n, r |-> Ok(generateEncryptionKeys(draw))]
    /\ UNCHANGED <<client, pending, stored, shuf, dcpe, clientInstance>>

\* dcpe.setKeys(encryptionKeys)
DoSetKeys(n, encryptionKeys) ==
    LET r == LocalSetKeys(dcpe[n].keyProvider, encryptionKeys)
    IN  /\ dcpe' = IF IsOk(r) THEN [dcpe EXCEPT ![n].keyProvider = r.val] ELSE dcpe
        /\ out' = [op |-> "setKeys", n |-> n, keys |-> encryptionKeys,
                   generated |-> encryptionKeys \in GeneratedKeys,
                   r |-> IF IsOk(r) THEN Ok(<<>>) ELSE r]
        /\ UNCHANGED <<client, pending, stored, shuf, clientInstance>>

\* dcpe.encryptVector(vector)
DoDcpeEncryptVector(n, vector, draw, draws) ==
    /\ out' = [op |-> "encryptVector", n |-> n,
               keys |-> dcpe[n].keyProvider.currentKey, v |-> vector,
               r |-> DcpeEncryptVector(dcpe[n], vector, RandomBytes(draw, 12), draws)]
    /\ UNCHANGED <<client, pending, stored, shuf, dcpe, clientInstance>>

\* dcpe.encryptText(text); the outcome is recorded with the keys the
\* instance held.
DoDcpeEncryptText(n, text, draw) ==
    /\ clientInstance' =
           DcpeEncryptText(dcpe[n], clientInstance, text, RandomBytes(draw, 12)).instance
    /\ out' = [op |-> "encryptText", n |-> n, keys |-> dcpe[n].keyProvider.currentKey,
               in |-> [pt |-> text, iv |-> RandomBytes(draw, 12)], under |-> <<>>,
               r |-> DcpeEncryptText(dcpe[n], clientInstance, text,
                                     RandomBytes(draw, 12)).r]
    /\ UNCHANGED <<client, pending, stored, shuf, dcpe>>

\* What encryptText returns for `text` under the key `under`.
TextMadeUnder(under, text, draw) ==
    EncryptText(Constructor(under, Num(1), "", "").val, text, RandomBytes(draw, 12)).val

\* dcpe.decryptText(encryptedText), encryptedText made under the key `under`.
DoDcpeDecryptText(n, under, text, draw) ==
    /\ clientInstance' =
           DcpeDecryptText(dcpe[n], clientInstance, TextMadeUnder(under, text, draw)).instance
    /\ out' = [op |-> "decryptText", n |-> n, keys |-> dcpe[n].keyProvider.currentKey,
               in |-> [pt |-> text, blob |-> TextMadeUnder(under, text, draw)],
               under |-> under,
               r |-> DcpeDecryptText(dcpe[n], clientInstance,
                                     TextMadeUnder(under, text, draw)).r]
    /\ UNCHANGED <<client, pending, stored, shuf, dcpe>>

\* dcpe.encryptMetadata(value)
DoDcpeEncryptMetadata(n, value) ==
    /\ clientInstance' = DcpeEncryptMetadata(dcpe[n], clientInstance, value).instance
    /\ out' = [op |-> "encryptMetadata", n |-> n,
               keys |-> dcpe[n].keyProvider.currentKey,
               in |-> [pt |-> value], under |-> <<>>,
               r |-> DcpeEncryptMetadata(dcpe[n], clientInstance, value).r]
    /\ UNCHANGED <<client, pending, stored, shuf, dcpe>>

\* What encryptMetadata returns for `value` under the key `under`.
MetadataMadeUnder(under, value) ==
    EncryptDeterministicText(Constructor(under, Num(1), "", "").val, value).val

\* dcpe.decryptMetadata(encryptedValue), encryptedValue made under the key
\* `under`.
DoDcpeDecryptMetadata(n, under, value) ==
    /\ clientInstance' =
           DcpeDecryptMetadata(dcpe[n], clientInstance,
                               MetadataMadeUnder(under, value)).instance
    /\ out' = [op |-> "decryptMetadata", n |-> n,
               keys |-> dcpe[n].keyProvider.currentKey,
               in |-> [pt |-> value, blob |-> MetadataMadeUnder(under, value)],
               under |-> under,
               r |-> DcpeDecryptMetadata(dcpe[n], clientInstance,
                                         MetadataMadeUnder(under, value)).r]
    /\ UNCHANGED <<client, pending, stored, shuf, dcpe>>

\* The random words drawn for the noise of the vector of the facade.
DcpeNoiseDraws ==
    {d \in NoiseDraws(1) : d.point = 32768 /\ d.normal[1][2] = 0}

NextDcpe ==
    \/ \E n \in DcpeNames, d \in 1..MaxIvDraws : DoGenerateKeys(n, d)
    \/ \E n \in DcpeNames, k \in SetKeysArgs \cup GeneratedKeys : DoSetKeys(n, k)
    \/ \E n \in DcpeNames, v \in HeaderVectors, d \in 1..MaxIvDraws,
          draws \in DcpeNoiseDraws : DoDcpeEncryptVector(n, v, d, draws)
    \/ \E n \in DcpeNames, t \in DcpeTexts, d \in 1..MaxIvDraws :
          DoDcpeEncryptText(n, t, d)
    \/ \E n \in DcpeNames, k \in BlobKeys, t \in DcpeTexts :
          DoDcpeDecryptText(n, k, t, 1)
    \/ \E n \in DcpeNames, t \in DcpeTexts : DoDcpeEncryptMetadata(n, t)
    \/ \E n \in DcpeNames, k \in BlobKeys, t \in DcpeTexts :
          DoDcpeDecryptMetadata(n, k, t)

SpecDcpe == InitDcpe /\ [][NextDcpe]_vars

\* The client `new RagEncryptionClient(keys)` makes of a Buffer.
ClientOf(keys) == Constructor(ConstructorArgument(keys), Num(1), "", "")

\* What a text operation returns when it operates under the keys the
\* instance holds.
UnderOwnKeys(call) ==
    IF ~ IsOk(ClientOf(call.keys)) THEN ClientOf(call.keys)
    ELSE LET c == ClientOf(call.keys).val
         IN  CASE call.op = "encryptText" -> EncryptText(c, call.in.pt, call.in.iv)
               [] call.op = "decryptText" ->
                     DecryptText(c, call.in.blob.ciphertext, call.in.blob.iv,
                                 call.in.blob.tag)
               [] call.op = "encryptMetadata" -> EncryptDeterministicText(c, call.in.pt)
               [] call.op = "decryptMetadata" -> DecryptDeterministicText(c, call.in.blob)

TextOperations == {"encryptText", "decryptText", "encryptMetadata", "decryptMetadata"}

\* C23: after setKeys(k2) on a DCPE instance every later encryptText,
\* decryptText, encryptMetadata and decryptMetadata call on it operates
\* under k2, whatever keys this or another instance used before.
C23_TextOperationsUseTheKeysSet ==
    (out.op \in TextOperations /\ out.keys /= JsNull)
        => out.r = UnderOwnKeys(out)

\* C23 witness: an instance holding a Buffer of keys decrypted a value made
\* under these keys while _clientInstance held a client of other keys.
C23_Witness ==
    /\ out.op = "decryptMetadata"
    /\ IsBufferValue(out.keys)
    /\ out.keys.buffer = out.under
    /\ clientInstance /= NoClient
    /\ clientInstance.textEncryptionKey /= out.under
    /\ out.r.kind = "DecryptError"

\* C24: on a fresh instance, after keys = await generateKeys() and
\* setKeys(keys), encryptVector(vector) succeeds on a finite vector and
\* returns a vector of the same length.
C24_QuickStartEncryptsTheVector ==
    (/\ out.op = "encryptVector"
     /\ \E d \in 1..MaxIvDraws : out.keys = generateEncryptionKeys(d))
        => (IsOk(out.r) /\ Len(out.r.val) = Len(out.v))

\* C24 witness: encryptVector called on an instance whose keys are what
\* generateKeys returned threw a TypeError.
C24_Witness ==
    /\ out.op = "encryptVector"
    /\ \E d \in 1..MaxIvDraws : out.keys = generateEncryptionKeys(d)
    /\ \A i \in 1..Len(out.v) : IsFinite(out.v[i])
    /\ out.r.kind = "TypeError"

---------------------------------------------------------------------------
(* The local key provider on its own (specification SpecLocal)             *)

LocalNames == {"dcpe1"}

\* The key material a caller stores.
LocalMaterials == {BufferValue(KeyMaterial("A", 32)), BufferValue(KeyMaterial("B", 32))}

\* The keyId arguments: omitted, "default", "k1".
LocalKeyIdArgs == LocalKeyIds \cup {""}

InitLocal ==
    /\ client = BlankClient
    /\ pending = <<>>
    /\ stored = NoValue
    /\ out = NoValue
    /\ shuf = NoValue
    /\ dcpe = [n \in LocalNames |-> NewDcpe]
    /\ clientInstance = NoClient

\* await dcpe.keyProvider.storeKey(keyMaterial, keyId)
DoStoreKey(n, keyMaterial, keyId) ==
    /\ dcpe' = [dcpe EXCEPT ![n].keyProvider =
                                LocalStoreKey(dcpe[n].keyProvider, keyMaterial, keyId)]
    /\ out' = [op |-> "storeKey", n |-> n, keyId |-> keyId,
               r |-> Ok(IF keyId = "" THEN "default" ELSE keyId)]
    /\ UNCHANGED <<client, pending, stored, shuf, clientInstance>>

\* await dcpe.keyProvider.getKey(keyId); the outcome is recorded with what
\* the provider held.
DoGetKey(n, keyId) ==
    /\ out' = [op |-> "getKey", n |-> n, keyId |-> keyId,
               provider |-> dcpe[n].keyProvider,
               r |-> LocalGetKey(dcpe[n].keyProvider, keyId)]
    /\ UNCHANGED <<client, pending, stored, shuf, dcpe, clientInstance>>

NextLocal ==
    \/ \E n \in LocalNames, m \in LocalMaterials, id \in LocalKeyIdArgs :
          DoStoreKey(n, m, id)
    \/ \E n \in LocalNames, id \in LocalKeyIdArgs : DoGetKey(n, id)
    \/ \E n \in LocalNames, k \in SetKeysArgs : DoSetKeys(n, k)

SpecLocal == InitLocal /\ [][NextLocal]_vars

\* The last call was getKey for a key id under which storeKey has stored
\* nothing.
GetKeyOfNothingStored ==
    /\ out.op = "getKey"
    /\ out.provider.keys[IF out.keyId = "" THEN "default" ELSE out.keyId] = JsNull

\* C25: getKey(keyId) fails with the `Key not found` Error whenever no
\* storeKey has stored a key under keyId ("default" when omitted), after any
\* storeKey and setKeys calls.
C25_GetKeyOfNothingStoredFails ==
    GetKeyOfNothingStored => out.r.kind = "Error"

\* C25 witness: getKey("k1") with nothing stored under "k1" resolved to the
\* Buffer given to setKeys.
C25_Witness ==
    /\ GetKeyOfNothingStored
    /\ out.keyId = "k1"
    /\ out.provider.currentKey = BufferValue(KeyMaterial("A", 32))
    /\ out.r = Ok(BufferValue(KeyMaterial("A", 32)))

---------------------------------------------------------------------------
(* Rotation through a provider that holds keys (specification SpecProv)    *)

\* provider.getKey(keyId) of a provider that holds a key under "k1" and
\* another under "k2" and nothing else: what the promise settles with.
ProviderGetKey(keyId) ==
    IF keyId = "k1" THEN Ok(KeyMaterial("A", 32))
    ELSE IF keyId = "k2" THEN Ok(KeyMaterial("B", 32))
    ELSE Throw("Error")

\* The ids a caller may ask for: none, the two held, one not held.
ProviderKeyIdArgs == {"", "k1", "k2", "k3"}

\* What a caller may pass as newKeyMaterial: nothing, or key material.
ProviderMaterialArgs == {Null, KeyMaterial("A", 32), KeyMaterial("B", 32)}

\* client = await RagEncryptionClient.create(null, 1.0, provider, "k1")
InitProv ==
    /\ client = Create(Null, Num(1), Provider, "k1", ProviderGetKey("k1")).val
    /\ pending = <<>>
    /\ stored = NoValue
    /\ out = NoValue
    /\ shuf = NoValue
    /\ dcpe = NoDcpe
    /\ clientInstance = NoClient

\* The provider answers the getKey call of the i-th suspended rotateKey
\* from what it holds.
ProviderAnswers(i) ==
    /\ i \in 1..Len(pending)
    /\ ProviderSettles(i, ProviderGetKey(pending[i].newKeyId))

NextProv ==
    \/ \E m \in ProviderMaterialArgs, id \in ProviderKeyIdArgs : RotateKey(m, id)
    \/ \E i \in 1..MaxPending : ProviderAnswers(i)

SpecProv == InitProv /\ [][NextProv]_vars

\* The key triple a client of the given approximation factor holds of the
\* given material.
KeyTripleOf(material, approximationFactor) ==
    [vector |-> VectorEncryptionKey(approximationFactor, material).val,
     text |-> material, deterministic |-> material]

\* The last call was a rotateKey that succeeded.
RotationSucceeded == out.op = "rotateKey" /\ IsOk(out.r)

\* C26: for a client created through a key provider, after every
\* successful rotateKey (with material, with a key id, or both) keyId names
\* the key in use: the key triple is of the material the provider returns
\* for keyId; rotateKey(null, newKeyId) leaves keyId = newKeyId.
C26_KeyIdNamesTheKeyInUse ==
    RotationSucceeded
        => /\ IsOk(ProviderGetKey(client.keyId))
           /\ KeyTriple(client)
                 = KeyTripleOf(ProviderGetKey(client.keyId).val, client.approximationFactor)
           /\ out.newKeyId /= "" => client.keyId = out.newKeyId

\* C26 witness: rotateKey with material alone succeeded on a client of the
\* provider; the keys are the material given, which is not what the
\* provider holds under the client's keyId.
C26_Witness ==
    /\ RotationSucceeded
    /\ out.newKeyId = ""
    /\ client.keyProvider = Provider
    /\ client.keyId = "k1"
    /\ KeyTriple(client) = KeyTripleOf(KeyMaterial("B", 32), client.approximationFactor)

---------------------------------------------------------------------------
(* Failed rotations (specification SpecKeys)                               *)

\* The last call was a rotateKey that threw or rejected.
RotationFailed == out.op = "rotateKey" /\ out.r.kind \notin {"ok", "await"}

\* C27: when a rotateKey call fails, whatever the reason, keyId, the vector
\* key, the text key, the deterministic key and the approximation factor of
\* the client are what they were before the call.
C27_FailedRotationChangesNothing ==
    RotationFailed
        => /\ KeyTriple(client) = out.before
           /\ client.keyId = out.beforeId
           /\ client.approximationFactor = out.beforeFactor

\* C27 witness: the provider resolved to a value that is not a Buffer; the
\* rotateKey failed, the keys are as before, keyId is the new id.
C27_Witness ==
    /\ RotationFailed
    /\ out.r.kind = "TypeError"
    /\ KeyTriple(client) = out.before
    /\ client.keyId = out.newKeyId
    /\ client.keyId /= out.beforeId

---------------------------------------------------------------------------
(* The normal samples of the noise (specification SpecEdge)                *)

\* The last call of encryptVector got as far as sampling its noise.
NoiseSampled ==
    /\ stored.op = "encryptVector"
    /\ stored.key.scalingFactor /= Fin(0)
    /\ IsOk(generateNoiseVector(stored.key, RandomBytes(1, 12), stored.a,
                                Len(stored.v), stored.draws))

\* The normal vector that call sampled.
NormalSampled == sampleNormalVector(Len(stored.v), stored.draws.normal)

\* C28: every value sampleNormalVector returns is finite, whatever u1 and
\* u2 in [0, 1) are drawn (u1 = 0 being drawn again), and so is every
\* coordinate of the noise and of what decryptVector returns.
C28_NormalSamplesAreFinite ==
    /\ NoiseSampled
         => /\ \A i \in 1..Len(stored.v) : IsFinite(NormalSampled[i])
            /\ \A i \in 1..Len(stored.v) :
                  IsFinite(generateNoiseVector(stored.key, RandomBytes(1, 12), stored.a,
                                               Len(stored.v), stored.draws).val[i])
    /\ (out.op = "decryptVector" /\ IsOk(out.r))
         => \A i \in 1..Len(out.r.val) : IsFinite(out.r.val[i])

\* C28 witness: u1 = 0 was drawn for the coordinate of a one-dimensional
\* vector, the sample is not finite, and encryptVector threw for it.
C28_Witness ==
    /\ NoiseSampled
    /\ Len(stored.v) = 1
    /\ stored.draws.normal[1][1] = 0
    /\ ~ IsFinite(NormalSampled[1])
    /\ stored.r.kind = "Error"

---------------------------------------------------------------------------
(* The permutation of shuffle and unshuffle (specification SpecPerm)       *)
(*                                                                         *)
(* `shuf` is the last call, `stored` the call before it.                   *)

\* Arrays of different elements of every length up to MaxLen: 1, 2, ...,
\* the same from 11, and 1, 2, ... backwards.
PermArrays ==
    UNION {{[i \in 1..n |-> Num(i)], [i \in 1..n |-> Num(10 + i)],
            [i \in 1..n |-> Num(n + 1 - i)]} : n \in 0..MaxLen}

PermShuffle(key, inputArray) ==
    /\ shuf' = [op |-> "shuffle", key |-> key, x |-> inputArray,
                r |-> shuffle(key, inputArray)]
    /\ stored' = shuf
    /\ UNCHANGED <<client, pending, out, dcpe, clientInstance>>

PermUnshuffle(key, shuffledArray) ==
    /\ shuf' = [op |-> "unshuffle", key |-> key, x |-> shuffledArray,
                r |-> unshuffle(key, shuffledArray)]
    /\ stored' = shuf
    /\ UNCHANGED <<client, pending, out, dcpe, clientInstance>>

NextPerm ==
    \/ \E key \in ShuffleKeys, x \in PermArrays : PermShuffle(key, x)
    \/ \E key \in ShuffleKeys, x \in PermArrays : PermUnshuffle(key, x)

SpecPerm == InitShuf /\ [][NextPerm]_vars

\* The position of the element v in the array a of different elements.
PositionOf(a, v) == CHOOSE i \in 1..Len(a) : a[i] = v

\* The permutation a call applied, read off what it was given and what it
\* returned: shuffle returns at k the element given at PermutationOf[k],
\* unshuffle returns at PermutationOf[k] the element given at k.
PermutationOf(call) ==
    IF call.op = "shuffle"
    THEN [k \in 1..Len(call.x) |-> PositionOf(call.x, call.r.val[k])]
    ELSE [k \in 1..Len(call.x) |-> PositionOf(call.r.val, call.x[k])]

\* The last two calls were made with one key on arrays of one length.
TwoCallsOfOneKeyAndLength ==
    /\ shuf.op \in {"shuffle", "unshuffle"}
    /\ stored.op \in {"shuffle", "unshuffle"}
    /\ shuf.key = stored.key
    /\ Len(shuf.x) = Len(stored.x)

\* C29: every call of shuffle and of unshuffle starts the generator of the
\* key afresh, at counter 0: the permutation depends on the key and the
\* length only, not on the elements of the array nor on the calls before.
C29_PermutationOfKeyAndLengthOnly ==
    TwoCallsOfOneKeyAndLength
        => /\ IsOk(shuf.r) /\ IsOk(stored.r)
           /\ PermutationOf(shuf) = PermutationOf(stored)

\* C29 witness: a shuffle and then an unshuffle with the same key of two
\* different arrays of MaxLen elements, moved by one permutation that is
\* not the identity.
C29_Witness ==
    /\ TwoCallsOfOneKeyAndLength
    /\ stored.op = "shuffle"
    /\ shuf.op = "unshuffle"
    /\ Len(shuf.x) = MaxLen
    /\ shuf.x /= stored.x
    /\ shuf.x /= stored.r.val
    /\ PermutationOf(shuf) = PermutationOf(stored)
    /\ PermutationOf(shuf) /= [k \in 1..MaxLen |-> k]

---------------------------------------------------------------------------
(* The header of the metadata given to client.decryptVector                *)
(* (specification SpecMeta)                                                *)

\* The six bytes put in place of the header: headers that parse (the one
\* the client writes for "local-key", key id 1, the largest key id with
\* other types), and bytes that do not (padding byte 1, type byte 255).
OtherHeaderBytes ==
    {WriteToBytes(h) : h \in MetadataHeaders}
        \cup {WriteToBytes(KeyIdHeader(UInt32Of(CharCodeSum("local-key") % 9999),
                                       "Standalone", "VectorMetadata").val),
              SetByte(WriteToBytes(KeyIdHeader(UInt32(0, 1), "Standalone",
                                               "VectorMetadata").val), 5, 1),
              SetByte(WriteToBytes(KeyIdHeader(UInt32(0, 1), "Standalone",
                                               "VectorMetadata").val), 4, 255)}

\* What follows the header: as the client wrote it, or with the last byte
\* of the hash altered.
RestTampers == {"none", "tag"}

\* metadata with its first six bytes replaced and the rest altered or not.
WithHeader(metadata, headerBytes, how) ==
    Concat(headerBytes, TamperBlob(Subarray(metadata, 6, BLen(metadata)), how))

\* client.decryptVector(ciphertext, metadata) on what client.encryptVector
\* returned, the header of the metadata replaced by other bytes.
ClientDecryptVectorWithHeader(headerBytes, how, draws) ==
    /\ stored.op = "client.encryptVector"
    /\ IsOk(stored.r)
    /\ out' = [op |-> "client.decryptVector", header |-> headerBytes, how |-> how,
               draws |-> draws,
               r |-> DecryptVector(client, stored.r.val.ciphertext,
                                   WithHeader(stored.r.val.metadata, headerBytes, how),
                                   draws)]
    /\ UNCHANGED <<client, pending, stored, shuf, dcpe, clientInstance>>

NextMeta ==
    \/ \E v \in HeaderVectors, d \in 1..MaxIvDraws, draws \in NoiseDraws(1) :
          ClientEncryptVector(v, d, draws)
    \/ \E h \in OtherHeaderBytes, how \in RestTampers, draws \in DcpeNoiseDraws :
          ClientDecryptVectorWithHeader(h, how, draws)

SpecMeta == InitVec /\ [][NextMeta]_vars

\* What the last call would have returned or thrown, with the same random
\* words, had the header been the one the client wrote.
OutcomeUnderWrittenHeader ==
    DecryptVector(client, stored.r.val.ciphertext,
                  WithHeader(stored.r.val.metadata,
                             Subarray(stored.r.val.metadata, 0, 6), out.how),
                  out.draws)

\* C30: client.decryptVector does not look at what the six header bytes
\* say: metadata of 50 bytes with one iv and hash and any two headers that
\* parse gives one outcome; a header that does not parse, and only that,
\* changes the outcome, to InvalidInputError.
C30_HeaderContentIsIgnored ==
    (out.op = "client.decryptVector" /\ stored.op = "client.encryptVector")
        => /\ BLen(WithHeader(stored.r.val.metadata, out.header, out.how)) = 50
           /\ IsOk(ParseFromBytes(out.header)) => out.r = OutcomeUnderWrittenHeader
           /\ ~ IsOk(ParseFromBytes(out.header)) => out.r = Throw("InvalidInputError")

\* C30 witness: metadata whose header names the largest key id and other
\* types than the client writes was accepted and the vector decrypted.
C30_Witness ==
    /\ out.op = "client.decryptVector"
    /\ stored.op = "client.encryptVector"
    /\ out.header = WriteToBytes(KeyIdHeader(UInt32(65535, 65535), "DataControlPlatform",
                                             "StandardEdek").val)
    /\ out.header /= Subarray(stored.r.val.metadata, 0, 6)
    /\ out.how = "none"
    /\ IsOk(out.r)
    /\ out.r = OutcomeUnderWrittenHeader

=============================================================================
